---- MODULE Spec2Model ----
\* Booking / payment state machine and package capacity accounting of the
\* travel CRM backend (bookingService, packageService, customerService,
\* midtransService, bookingController). A request handler is a chain of
\* steps, one per await; the steps of requests in flight interleave.
EXTENDS Integers, Sequences, FiniteSets, TLC

\* ---------------------------------------------------------------- bounds
NumCustomers == 2
NumPackages == 1
MaxBookings == 1
MaxQuota == 2
MaxParticipants == 2
MaxTime == 1
MaxInFlight == 1
NumRequests == 2
MaxCapacityBookings == 2
MaxCatalog == 2
MaxLoyaltyBookings == 3
MaxCustomers == 3
MaxInteractions == 1

\* ------------------------------------------------------------ constants
ExpiryHours == 24
LoyalThreshold == 3
ActiveThreshold == 1
DefaultLimit == 10

CustomerIds == 1..NumCustomers
PackageIds == 1..NumPackages
Prices == {100}
NewPrices == {250}
DateStrings == {"2026-01-01T00:00:00Z"}
NewDateStrings == {"2026-02-01T00:00:00Z"}
NoteStrings == {"window seat"}
ServerKey == <<"server-key">>
ForgedKey == <<"guessed-key">>

BookingStatuses == {"PENDING", "PAID", "CONFIRMED", "CANCELED", "COMPLETED"}
CustomerStatuses == {"PROSPECT", "ACTIVE", "LOYAL"}
SlotHoldingNoConfirmed == {"PENDING", "PAID"}
SlotHolding == {"PENDING", "PAID", "CONFIRMED"}
PaidStatuses == {"PAID", "CONFIRMED", "COMPLETED"}

\* A nullable column: <<>> is NULL, <<v>> holds v.
Null == <<>>
Some(v) == <<v>>

VARIABLES
    packages,       \* travel_packages rows: id -> [quota, price, isActive]
    customers,      \* customers rows: id -> [status, email]
    bookings,       \* bookings rows, index = auto-increment id
    payments,       \* payments rows, index = auto-increment id
    interactions,   \* interactions rows (the customerId column), index = auto-increment id
    autoIncrement,  \* the last id given out in travel_packages and in customers
    now,            \* the wall clock read by Date.now() / new Date()
    last,           \* the response given by the step just taken, NoRequest when it gave none
    everPaid,       \* ids of bookings that have been PAID/CONFIRMED/COMPLETED at some time
    reqs            \* requests in flight, each stopped at one of its awaits

vars == <<packages, customers, bookings, payments, interactions, autoIncrement, now, last,
          everPaid, reqs>>

\* The database as one value, so that a query is a function of it.
DB == [packages |-> packages, customers |-> customers,
       bookings |-> bookings, payments |-> payments,
       interactions |-> interactions, autoIncrement |-> autoIncrement]

\* ------------------------------------------------------ requests in flight
\* A request: its handler (op), the await it is stopped at (pc = the step that
\* runs when that await resolves), its arguments (data), what it has read so
\* far (snap), and once done its response (id of the record concerned, status
\* code, body). keep: the response stays in reqs for the claims to read.
Request(op, pc, data) ==
    [op |-> op, pc |-> pc, data |-> data, snap |-> Null,
     id |-> 0, code |-> 0, out |-> Null, keep |-> FALSE]
Kept(q) == [q EXCEPT !.keep = TRUE]
Idle == Request("none", "idle", Null)

\* The outcome of a step: the database and the request after it.
Await(db, q, pc, snap) == [db |-> db, q |-> [q EXCEPT !.pc = pc, !.snap = snap]]
Reply(db, q, id, code, out) ==
    [db |-> db, q |-> [q EXCEPT !.pc = "done", !.id = id, !.code = code, !.out = out]]

Staff == [type |-> "USER", id |-> 1]

\* ------------------------------------------------------ Capacity Calculator
RECURSIVE SumParticipants(_, _, _)
SumParticipants(bs, packageId, i) ==
    IF i > Len(bs) THEN 0
    ELSE (IF bs[i].packageId = packageId /\ bs[i].status \in SlotHolding
          THEN bs[i].participants ELSE 0)
         + SumParticipants(bs, packageId, i + 1)

bookedParticipants(db, packageId) == SumParticipants(db.bookings, packageId, 1)

\* packageService.checkAvailability: 404 absent, 400 inactive, else the slots.
checkAvailability(db, packageId, participants) ==
    IF packageId \notin DOMAIN db.packages
    THEN [code |-> 404, isAvailable |-> FALSE, availableSlots |-> 0]
    ELSE IF ~db.packages[packageId].isActive
    THEN [code |-> 400, isAvailable |-> FALSE, availableSlots |-> 0]
    ELSE LET availableSlots == db.packages[packageId].quota
                               - bookedParticipants(db, packageId)
         IN [code |-> 200,
             isAvailable |-> availableSlots >= participants,
             availableSlots |-> availableSlots]

\* packageController.checkAvailability: GET /packages/:id/availability with the
\* query participants read as parseInt(participants) || 1.
checkAvailabilityRequest(db, q) ==
    LET r == checkAvailability(db, q.data.id,
                               IF q.data.participants = 0 THEN 1
                               ELSE q.data.participants)
    IN Reply(db, q, q.data.id, r.code,
             IF r.code = 200
             THEN Some([isAvailable |-> r.isAvailable,
                        availableSlots |-> r.availableSlots])
             ELSE Null)

\* ------------------------------------------------- Customer Status Deriver
paidBookingsCount(db, customerId) ==
    Cardinality({i \in DOMAIN db.bookings :
                    /\ db.bookings[i].customerId = customerId
                    /\ db.bookings[i].status \in PaidStatuses})

\* The tier of a customer with this many paid bookings.
customerStatusFor(bookingsCount) ==
    IF bookingsCount >= LoyalThreshold THEN "LOYAL"
    ELSE IF bookingsCount >= ActiveThreshold THEN "ACTIVE"
    ELSE "PROSPECT"

\* updateCustomerStatus: await prisma.booking.count(...), snap.customerId being
\* the customer of the booking just written.
deriveCountBookings(db, q) ==
    Await(db, q, "deriveWriteCustomer",
          [q.snap EXCEPT !.bookingsCount = paidBookingsCount(db, q.snap.customerId)])

\* updateCustomerStatus: await prisma.customer.update(...), P2025 -> 404 when
\* the customer is gone.
deriveWriteCustomer(db, q) ==
    IF q.snap.customerId \notin DOMAIN db.customers
    THEN Reply(db, q, q.id, 404, Null)
    ELSE Reply([db EXCEPT !.customers[q.snap.customerId].status =
                             customerStatusFor(q.snap.bookingsCount)],
               q, q.id, 200, Null)

\* ------------------------------------------------ Booking Lifecycle Manager
\* new Date(isoString)
NewDate(s) == <<"Date", s>>

\* bookingController.createBooking up to its await (a customer books for
\* themselves, staff must name the customer), then
\* await customerService.getCustomerById(customerId)
createGetCustomer(db, q) ==
    LET user == q.data.user
        body == q.data.body
        bookingData == IF user.type = "CUSTOMER"
                       THEN [f \in DOMAIN body \cup {"customerId"} |->
                               IF f = "customerId" THEN user.id ELSE body[f]]
                       ELSE body
    IN IF user.type # "CUSTOMER" /\ "customerId" \notin DOMAIN body
       THEN Reply(db, q, 0, 400, Null)
       ELSE IF bookingData.customerId \notin DOMAIN db.customers
       THEN Reply(db, q, 0, 404, Null)
       ELSE Await(db, q, "createGetPackage", [bookingData |-> bookingData, price |-> 0])

\* await packageService.getPackageById(packageId), then the isActive test
createGetPackage(db, q) ==
    LET packageId == q.snap.bookingData.packageId
    IN IF packageId \notin DOMAIN db.packages
       THEN Reply(db, q, 0, 404, Null)
       ELSE IF ~db.packages[packageId].isActive
       THEN Reply(db, q, 0, 400, Null)
       ELSE Await(db, q, "createCheckAvailability",
                  [q.snap EXCEPT !.price = db.packages[packageId].price])

\* await packageService.checkAvailability(packageId, participants)
createCheckAvailabilityUnchecked(db, q) == Await(db, q, "createInsert", q.snap)
createCheckAvailability(db, q) ==
    LET availability == checkAvailability(db, q.snap.bookingData.packageId,
                                          q.snap.bookingData.participants)
    IN IF availability.code # 200
       THEN Reply(db, q, 0, availability.code, Null)
       ELSE IF ~availability.isAvailable
       THEN Reply(db, q, 0, 400, Null)
       ELSE Await(db, q, "createInsert", q.snap)

\* The row inserted by prisma.booking.create in createBooking.
newBooking(id, bookingData, price) ==
    [bookingCode |-> id,
     customerId |-> bookingData.customerId,
     packageId |-> bookingData.packageId,
     participants |-> bookingData.participants,
     totalAmount |-> price * bookingData.participants,
     departureDate |-> NewDate(bookingData.departureDate),
     notes |-> bookingData.notes,
     status |-> "PENDING"]

\* await prisma.booking.create(...): the foreign keys bookings_customerId_fkey
\* and bookings_packageId_fkey refuse a row whose customer or package is gone
\* (P2003, answered 500).
createInsert(db, q) ==
    LET bookingData == q.snap.bookingData
        id == Len(db.bookings) + 1
        booking == newBooking(id, bookingData, q.snap.price)
    IN IF \/ bookingData.customerId \notin DOMAIN db.customers
          \/ bookingData.packageId \notin DOMAIN db.packages
       THEN Reply(db, q, 0, 500, Null)
       ELSE Reply([db EXCEPT !.bookings = Append(@, booking)], q, id, 201, Some(booking))

\* The row written by prisma.booking.update({data: updateData}): each field
\* present in updateData replaces the stored one.
ApplyPatch(b, patch) ==
    [f \in DOMAIN b |-> IF f \in DOMAIN patch THEN patch[f] ELSE b[f]]

\* A booking in one of these statuses is closed to updateBooking.
isLockedNoCompleted(status) == status \in {"PAID", "CONFIRMED"}
isLocked(status) == status \in {"PAID", "CONFIRMED", "COMPLETED"}

\* The data handed to prisma.booking.update: updateData with totalAmount added
\* when participants changed (price is the package price read with the booking)
\* and departureDate converted to a Date.
preparedUpdate(existingBooking, price, updateData) ==
    LET changed == /\ "participants" \in DOMAIN updateData
                   /\ updateData.participants # existingBooking.participants
        withTotal == IF changed
                     THEN [f \in DOMAIN updateData \cup {"totalAmount"} |->
                             IF f = "totalAmount"
                             THEN price * updateData.participants
                             ELSE updateData[f]]
                     ELSE updateData
    IN IF "departureDate" \in DOMAIN withTotal
       THEN [withTotal EXCEPT !.departureDate = NewDate(@)]
       ELSE withTotal

\* The participants an update adds to the booking, 0 when it adds none.
additionalParticipants(existingBooking, updateData) ==
    IF /\ "participants" \in DOMAIN updateData
       /\ updateData.participants # existingBooking.participants
    THEN updateData.participants - existingBooking.participants
    ELSE 0

\* updateBooking: await getBookingById(id) (the booking with its package), then
\* the status guard
updateGetBooking(db, q) ==
    LET id == q.data.id
    IN IF id \notin DOMAIN db.bookings
       THEN Reply(db, q, id, 404, Null)
       ELSE IF isLocked(db.bookings[id].status)
       THEN Reply(db, q, id, 400, Null)
       ELSE Await(db, q,
                  IF additionalParticipants(db.bookings[id], q.data.updateData) > 0
                  THEN "updateCheckAvailability" ELSE "updateWrite",
                  [existingBooking |-> db.bookings[id],
                   price |-> db.packages[db.bookings[id].packageId].price])

\* updateBooking: await packageService.checkAvailability(packageId, additional)
updateCheckAvailability(db, q) ==
    LET existingBooking == q.snap.existingBooking
        availability ==
            checkAvailability(db, existingBooking.packageId,
                              additionalParticipants(existingBooking, q.data.updateData))
    IN IF availability.code # 200
       THEN Reply(db, q, q.data.id, availability.code, Null)
       ELSE IF ~availability.isAvailable
       THEN Reply(db, q, q.data.id, 400, Null)
       ELSE Await(db, q, "updateWrite", q.snap)

\* updateBooking: await prisma.booking.update({where: {id}, data: updateData})
updateWrite(db, q) ==
    LET id == q.data.id
        written == ApplyPatch(db.bookings[id],
                              preparedUpdate(q.snap.existingBooking, q.snap.price,
                                             q.data.updateData))
    IN Reply([db EXCEPT !.bookings[id] = written], q, id, 200, Some(written))

\* cancelBooking: await getBookingById(id), then the status guard
cancelGetBookingRefusingPaid(db, q) ==
    LET id == q.data.id
    IN IF id \notin DOMAIN db.bookings
       THEN Reply(db, q, id, 404, Null)
       ELSE IF db.bookings[id].status \in {"PAID", "COMPLETED"}
       THEN Reply(db, q, id, 400, Null)
       ELSE Await(db, q, "cancelWrite", Null)
cancelGetBooking(db, q) ==
    LET id == q.data.id
    IN IF id \notin DOMAIN db.bookings
       THEN Reply(db, q, id, 404, Null)
       ELSE IF db.bookings[id].status = "COMPLETED"
       THEN Reply(db, q, id, 400, Null)
       ELSE Await(db, q, "cancelWrite", Null)

\* cancelBooking: await prisma.booking.update({data: {status: 'CANCELED'}})
cancelWrite(db, q) ==
    LET id == q.data.id
        written == [db.bookings[id] EXCEPT !.status = "CANCELED"]
    IN Reply([db EXCEPT !.bookings[id] = written], q, id, 200, Some(written))

\* updateBookingStatus: await prisma.booking.update({data: {status}}), P2025 ->
\* 404 when the booking is absent; PAID and COMPLETED go on to the deriver.
statusWrite(db, q) ==
    LET id == q.data.id
    IN IF id \notin DOMAIN db.bookings
       THEN Reply(db, q, id, 404, Null)
       ELSE LET written == [db EXCEPT !.bookings[id].status = q.data.status]
            IN IF q.data.status \in {"PAID", "COMPLETED"}
               THEN Await(written, [q EXCEPT !.id = id], "deriveCountBookings",
                          [customerId |-> db.bookings[id].customerId,
                           bookingsCount |-> 0])
               ELSE Reply(written, q, id, 200, Null)

\* bookingController.getBookingById: await bookingService.getBookingById(id),
\* then the ownership check
getBookingByIdRequest(db, q) ==
    LET id == q.data.id
        user == q.data.user
    IN IF id \notin DOMAIN db.bookings
       THEN Reply(db, q, id, 404, Null)
       ELSE IF user.type = "CUSTOMER" /\ db.bookings[id].customerId # user.id
       THEN Reply(db, q, id, 403, Null)
       ELSE Reply(db, q, id, 200, Some(db.bookings[id]))

\* bookingController.downloadInvoice: for a customer, await getBookingById and
\* the ownership check; staff go straight to the PDF.
invoiceGetBooking(db, q) ==
    LET id == q.data.id
        user == q.data.user
    IN IF id \notin DOMAIN db.bookings
       THEN Reply(db, q, id, 404, Null)
       ELSE IF db.bookings[id].customerId # user.id
       THEN Reply(db, q, id, 403, Null)
       ELSE Await(db, q, "invoiceGenerate", Null)

\* exportService.generateInvoicePDF: await prisma.booking.findUnique, a plain
\* Error (answered 500) when the booking is absent.
invoiceGenerate(db, q) ==
    LET id == q.data.id
    IN IF id \notin DOMAIN db.bookings
       THEN Reply(db, q, id, 500, Null)
       ELSE Reply(db, q, id, 200, Some(db.bookings[id]))

\* The ids of a set of bookings, newest first (orderBy createdAt desc).
RECURSIVE NewestFirst(_)
NewestFirst(S) ==
    IF S = {} THEN <<>>
    ELSE LET newest == CHOOSE i \in S : \A j \in S : j <= i
         IN <<newest>> \o NewestFirst(S \ {newest})

\* The bookings matching the where clause of bookingService.getAllBookings.
matchingBookings(db, filters) ==
    {i \in DOMAIN db.bookings :
        /\ filters.status = Null \/ db.bookings[i].status = filters.status[1]
        /\ filters.customerId = Null
           \/ db.bookings[i].customerId = filters.customerId[1]}

\* prisma.booking.findMany({where, skip, take, orderBy}): the ids of one page.
findManyBookings(db, page, limit, filters) ==
    LET ordered == NewestFirst(matchingBookings(db, filters))
        skip == (page - 1) * limit
        upto == IF skip + limit < Len(ordered) THEN skip + limit ELSE Len(ordered)
    IN SubSeq(ordered, skip + 1, upto)

\* bookingController.getAllBookings: a customer's filter is forced to their id.
listFiltersTrustingQuery(user, query) ==
    [status |-> query.status,
     customerId |-> IF query.customerId # Null THEN query.customerId
                    ELSE IF user.type = "CUSTOMER" THEN Some(user.id)
                    ELSE Null]
listFilters(user, query) ==
    [status |-> query.status,
     customerId |-> IF user.type = "CUSTOMER" THEN Some(user.id)
                    ELSE query.customerId]

\* bookingService.getAllBookings awaits Promise.all([findMany, count]): the two
\* queries run in either order. snap holds what has been answered so far.
listFindMany(db, q) ==
    LET filters == listFilters(q.data.user, q.data.query)
        page == findManyBookings(db, q.data.query.page, q.data.query.limit, filters)
    IN IF q.pc = "listBoth"
       THEN Await(db, q, "listCount", [bookings |-> page, total |-> 0])
       ELSE Reply(db, q, q.data.user.id, 200,
                  Some([bookings |-> page, total |-> q.snap.total]))

listCount(db, q) ==
    LET filters == listFilters(q.data.user, q.data.query)
        total == Cardinality(matchingBookings(db, filters))
    IN IF q.pc = "listBoth"
       THEN Await(db, q, "listFindMany", [bookings |-> <<>>, total |-> total])
       ELSE Reply(db, q, q.data.user.id, 200,
                  Some([bookings |-> q.snap.bookings, total |-> total]))
\* ------------------------------------------------------ Package catalogue
\* A table with one row removed / one row added.
WithoutRow(rows, id) == [i \in DOMAIN rows \ {id} |-> rows[i]]
WithRow(rows, id, row) == [i \in DOMAIN rows \cup {id} |-> IF i = id THEN row ELSE rows[i]]

\* packageService.createPackage: await prisma.travelPackage.create, isActive
\* taking its column default.
createPackage(db, q) ==
    LET id == db.autoIncrement.travel_packages + 1
        row == [quota |-> q.data.quota, price |-> q.data.price, isActive |-> TRUE]
    IN Reply([db EXCEPT !.packages = WithRow(@, id, row),
                        !.autoIncrement.travel_packages = id],
             q, id, 201, Some(row))

\* packageService.updatePackage: await prisma.travelPackage.update, P2025 ->
\* 404 when absent.
updatePackage(db, q) ==
    LET id == q.data.id
        updateData == q.data.updateData
    IN IF id \notin DOMAIN db.packages
       THEN Reply(db, q, id, 404, Null)
       ELSE Reply([db EXCEPT !.packages[id] =
                      [f \in DOMAIN @ |-> IF f \in DOMAIN updateData
                                          THEN updateData[f] ELSE @[f]]],
                  q, id, 200, Null)

\* packageService.deactivatePackage: await prisma.travelPackage.update with
\* {isActive: false}.
deactivatePackage(db, q) ==
    LET id == q.data.id
    IN IF id \notin DOMAIN db.packages
       THEN Reply(db, q, id, 404, Null)
       ELSE Reply([db EXCEPT !.packages[id].isActive = FALSE], q, id, 200, Null)

\* packageService.deletePackage: await prisma.booking.count({where: {packageId}})
deletePackageCount(db, q) ==
    IF \E i \in DOMAIN db.bookings : db.bookings[i].packageId = q.data.id
    THEN Reply(db, q, q.data.id, 400, Null)
    ELSE Await(db, q, "deletePackageDelete", Null)

\* packageService.deletePackage: await prisma.travelPackage.delete: P2025 ->
\* 404 when absent, and bookings_packageId_fkey (ON DELETE RESTRICT) refuses
\* the delete while a booking refers to the package (P2003, answered 500).
deletePackageDelete(db, q) ==
    LET id == q.data.id
    IN IF id \notin DOMAIN db.packages
       THEN Reply(db, q, id, 404, Null)
       ELSE IF \E i \in DOMAIN db.bookings : db.bookings[i].packageId = id
       THEN Reply(db, q, id, 500, Null)
       ELSE Reply([db EXCEPT !.packages = WithoutRow(@, id)], q, id, 200, Null)

\* ------------------------------------------------------- Customer records
\* customers_email_key: TRUE when another row already carries this email.
emailTaken(db, email, except) ==
    \E c \in DOMAIN db.customers : c # except /\ db.customers[c].email = email

\* customerService.createCustomer: await prisma.customer.create, P2002 -> 409
\* on a duplicate email.
createCustomer(db, q) ==
    LET id == db.autoIncrement.customers + 1
        row == [status |-> q.data.status, email |-> q.data.email]
    IN IF emailTaken(db, q.data.email, 0)
       THEN Reply(db, q, 0, 409, Null)
       ELSE Reply([db EXCEPT !.customers = WithRow(@, id, row),
                             !.autoIncrement.customers = id],
                  q, id, 201, Some(row))

\* customerService.updateCustomer: await prisma.customer.update, P2025 -> 404,
\* P2002 -> 409.
updateCustomer(db, q) ==
    LET id == q.data.id
        updateData == q.data.updateData
    IN IF id \notin DOMAIN db.customers
       THEN Reply(db, q, id, 404, Null)
       ELSE IF "email" \in DOMAIN updateData /\ emailTaken(db, updateData.email, id)
       THEN Reply(db, q, id, 409, Null)
       ELSE Reply([db EXCEPT !.customers[id] =
                      [f \in DOMAIN @ |-> IF f \in DOMAIN updateData
                                          THEN updateData[f] ELSE @[f]]],
                  q, id, 200, Null)

\* customerService.deleteCustomer: await prisma.booking.count({where: {customerId}})
deleteCustomerCount(db, q) ==
    IF \E i \in DOMAIN db.bookings : db.bookings[i].customerId = q.data.id
    THEN Reply(db, q, q.data.id, 400, Null)
    ELSE Await(db, q, "deleteCustomerDelete", Null)

\* customerService.deleteCustomer: await prisma.customer.delete, P2025 -> 404;
\* refused (P2003, answered 500) by bookings_customerId_fkey and by
\* interactions_customerId_fkey while a row refers to the customer.
deleteCustomerDelete(db, q) ==
    LET id == q.data.id
    IN IF id \notin DOMAIN db.customers
       THEN Reply(db, q, id, 404, Null)
       ELSE IF \/ \E i \in DOMAIN db.bookings : db.bookings[i].customerId = id
               \/ \E i \in DOMAIN db.interactions : db.interactions[i].customerId = id
       THEN Reply(db, q, id, 500, Null)
       ELSE Reply([db EXCEPT !.customers = WithoutRow(@, id)], q, id, 200, Null)

\* customerAuthController.register: await prisma.customer.findUnique({where:
\* {email}}), 400 when the email is registered. The route checks no body: a
\* body without email makes the query throw (500).
registerFindUnique(db, q) ==
    IF q.data.email = Null
    THEN Reply(db, q, 0, 500, Null)
    ELSE IF emailTaken(db, q.data.email[1], 0)
    THEN Reply(db, q, 0, 400, Null)
    ELSE Await(db, q, "registerHash", Null)

\* customerAuthController.register: await bcrypt.hash(password, 10), which
\* rejects (500) when the body has no password.
registerHash(db, q) ==
    IF q.data.password = Null
    THEN Reply(db, q, 0, 500, Null)
    ELSE Await(db, q, "registerCreate", Null)

\* customerAuthController.register: await prisma.customer.create with status
\* PROSPECT. A body without name is refused by the client before any query
\* (name is a required column; the error has no code and is answered 500);
\* P2002 -> 409 when the email was taken since the first query.
registerCreate(db, q) ==
    LET id == db.autoIncrement.customers + 1
        row == [status |-> "PROSPECT", email |-> q.data.email[1]]
    IN IF q.data.name = Null
       THEN Reply(db, q, 0, 500, Null)
       ELSE IF emailTaken(db, row.email, 0)
       THEN Reply(db, q, 0, 409, Null)
       ELSE Reply([db EXCEPT !.customers = WithRow(@, id, row),
                             !.autoIncrement.customers = id],
                  q, id, 201, Some(row))

\* interactionService.createInteraction: await prisma.interaction.create,
\* refused (P2003, answered 500) when the customer does not exist. userId is
\* the staff user authenticate has just read.
createInteraction(db, q) ==
    IF q.data.customerId \notin DOMAIN db.customers
    THEN Reply(db, q, 0, 500, Null)
    ELSE Reply([db EXCEPT !.interactions =
                   Append(@, [customerId |-> q.data.customerId])],
               q, Len(db.interactions) + 1, 201, Null)

\* ------------------------------------------------- Payment Gateway Adapter
\* The payment row of a booking (bookingId is unique), 0 when it has none.
paymentOfNone(db, bookingId) == 0
paymentOf(db, bookingId) ==
    IF \E i \in DOMAIN db.payments : db.payments[i].bookingId = bookingId
    THEN CHOOSE i \in DOMAIN db.payments : db.payments[i].bookingId = bookingId
    ELSE 0

\* `TRV-${booking.bookingCode}-${Date.now()}`
OrderId(bookingCode, t) == <<"TRV", bookingCode, t>>

\* What snap.createTransaction answers for an order when the call succeeds.
SnapResponse(orderId) ==
    [token |-> <<"token">> \o orderId, redirect_url |-> <<"redirect">> \o orderId]

\* The unique indexes payments_bookingId_key and payments_midtransOrderId_key:
\* TRUE when a row with this booking or this order id cannot be inserted.
violatesUniqueOrderIdOnly(rows, bookingId, orderId) ==
    \E i \in DOMAIN rows : rows[i].midtransOrderId = orderId
violatesUnique(rows, bookingId, orderId) ==
    \E i \in DOMAIN rows :
        \/ rows[i].bookingId = bookingId
        \/ rows[i].midtransOrderId = orderId

\* The row inserted by prisma.payment.create in createSnapTransaction;
\* expiredAt is the Date taken when the provider answered, plus 24 hours.
newPayment(booking, bookingId, orderId, transaction, t) ==
    [bookingId |-> bookingId,
     midtransOrderId |-> orderId,
     midtransToken |-> transaction.token,
     paymentUrl |-> transaction.redirect_url,
     amount |-> booking.totalAmount,
     status |-> "PENDING",
     paymentType |-> Null,
     paidAt |-> Null,
     expiredAt |-> t + ExpiryHours]

\* The snapToken / redirectUrl body of an initiatePayment response.
paymentLink(token, url) == Some([snapToken |-> token, redirectUrl |-> url])

\* bookingController.initiatePayment: await bookingService.getBookingById(id)
\* (the booking with its payment), the ownership, status and existing-payment
\* checks, then createSnapTransaction up to its await: the order id is built
\* from Date.now() before the provider is called.
payGetBooking(db, q, t) ==
    LET id == q.data.id
        user == q.data.user
        p == paymentOf(db, id)
    IN IF id \notin DOMAIN db.bookings
       THEN Reply(db, q, id, 404, Null)
       ELSE IF user.type = "CUSTOMER" /\ db.bookings[id].customerId # user.id
       THEN Reply(db, q, id, 403, Null)
       ELSE IF db.bookings[id].status # "PENDING"
       THEN Reply(db, q, id, 400, Null)
       ELSE IF p # 0 /\ db.payments[p].status = "PENDING"
       THEN Reply(db, q, id, 200,
                  paymentLink(db.payments[p].midtransToken, db.payments[p].paymentUrl))
       ELSE Await(db, q, "payCreateTransaction",
                  [booking |-> db.bookings[id],
                   orderId |-> OrderId(db.bookings[id].bookingCode, t),
                   expiryFrom |-> 0])

\* createSnapTransaction: await snap.createTransaction(parameter); a provider
\* failure is caught and answered 500; on success expiredAt is computed from
\* new Date() before the insert is issued.
payCreateTransactionInsertingFirst(db, q, t) ==
    LET inserted == [db EXCEPT !.payments =
                        Append(@, newPayment(q.snap.booking, q.data.id, q.snap.orderId,
                                             SnapResponse(q.snap.orderId), t))]
    IN IF violatesUnique(db.payments, q.data.id, q.snap.orderId)
       THEN Reply(db, q, q.data.id, 500, Null)
       ELSE IF ~q.data.providerOk
       THEN Reply(inserted, q, q.data.id, 500, Null)
       ELSE Reply(inserted, q, q.data.id, 200,
                  paymentLink(SnapResponse(q.snap.orderId).token,
                              SnapResponse(q.snap.orderId).redirect_url))
payCreateTransaction(db, q, t) ==
    IF ~q.data.providerOk
    THEN Reply(db, q, q.data.id, 500, Null)
    ELSE Await(db, q, "payInsert", [q.snap EXCEPT !.expiryFrom = t])

\* createSnapTransaction: await prisma.payment.create(...); a unique index
\* violation is caught by the same try block and answered 500.
payInsertClaimingSlot(db, q) ==
    LET id == q.data.id
        orderId == q.snap.orderId
        transaction == SnapResponse(orderId)
    IN IF violatesUnique(db.payments, id, orderId)
       THEN Reply(db, q, id, 500, Null)
       ELSE Reply([db EXCEPT !.payments =
                      Append(@, newPayment(q.snap.booking, id, orderId, transaction,
                                           q.snap.expiryFrom)),
                             !.bookings[id].status = "CONFIRMED"],
                  q, id, 200, paymentLink(transaction.token, transaction.redirect_url))
payInsert(db, q) ==
    LET id == q.data.id
        orderId == q.snap.orderId
        transaction == SnapResponse(orderId)
    IN IF violatesUnique(db.payments, id, orderId)
       THEN Reply(db, q, id, 500, Null)
       ELSE Reply([db EXCEPT !.payments =
                      Append(@, newPayment(q.snap.booking, id, orderId, transaction,
                                           q.snap.expiryFrom))],
                  q, id, 200, paymentLink(transaction.token, transaction.redirect_url))
\* ------------------------------------------- Webhook Notification Processor
\* SHA-512 as a collision-free one-way function of the hashed text.
Sha512(text) == <<"sha512">> \o text

\* verifySignature: SHA512(order_id + status_code + gross_amount + ServerKey)
\* compared with signature_key (a missing signature_key is Null).
verifySignatureIfPresent(notification) ==
    \/ notification.signature_key = Null
    \/ Sha512(notification.order_id \o notification.status_code
              \o notification.gross_amount \o ServerKey)
       = notification.signature_key
verifySignature(notification) ==
    Sha512(notification.order_id \o notification.status_code
           \o notification.gross_amount \o ServerKey)
    = notification.signature_key

\* The index of the payment with this order id, 0 when there is none.
findPaymentByBookingCode(db, orderId) ==
    IF \E i \in DOMAIN db.payments : db.payments[i].midtransOrderId[2] = orderId[2]
    THEN CHOOSE i \in DOMAIN db.payments : db.payments[i].midtransOrderId[2] = orderId[2]
    ELSE 0
findPaymentByOrderId(db, orderId) ==
    IF \E i \in DOMAIN db.payments : db.payments[i].midtransOrderId = orderId
    THEN CHOOSE i \in DOMAIN db.payments : db.payments[i].midtransOrderId = orderId
    ELSE 0

\* The status pair chosen from transaction_status and fraud_status;
\* current is the booking status read with the payment.
mapStatusExpireAsFailed(transaction_status, fraud_status, current) ==
    IF (transaction_status = "capture" /\ fraud_status = "accept")
       \/ transaction_status = "settlement"
    THEN [paymentStatus |-> "SUCCESS", bookingStatus |-> "PAID"]
    ELSE IF transaction_status \in {"deny", "cancel", "expire"}
    THEN [paymentStatus |-> "FAILED", bookingStatus |-> "CANCELED"]
    ELSE IF transaction_status = "refund"
    THEN [paymentStatus |-> "REFUND", bookingStatus |-> current]
    ELSE [paymentStatus |-> "PENDING", bookingStatus |-> current]
mapStatus(transaction_status, fraud_status, current) ==
    IF transaction_status = "capture"
    THEN IF fraud_status = "accept"
         THEN [paymentStatus |-> "SUCCESS", bookingStatus |-> "PAID"]
         ELSE [paymentStatus |-> "PENDING", bookingStatus |-> current]
    ELSE IF transaction_status = "settlement"
    THEN [paymentStatus |-> "SUCCESS", bookingStatus |-> "PAID"]
    ELSE IF transaction_status = "pending"
    THEN [paymentStatus |-> "PENDING", bookingStatus |-> current]
    ELSE IF transaction_status \in {"deny", "cancel"}
    THEN [paymentStatus |-> "FAILED", bookingStatus |-> "CANCELED"]
    ELSE IF transaction_status = "expire"
    THEN [paymentStatus |-> "EXPIRED", bookingStatus |-> "CANCELED"]
    ELSE IF transaction_status = "refund"
    THEN [paymentStatus |-> "REFUND", bookingStatus |-> current]
    ELSE [paymentStatus |-> "PENDING", bookingStatus |-> current]

\* The payment row after prisma.payment.update in processNotification.
writePaymentKeepingPaidAt(payment, paymentStatus, payment_type, t) ==
    [payment EXCEPT !.status = paymentStatus,
                    !.paymentType = Some(payment_type),
                    !.paidAt = IF paymentStatus = "SUCCESS" THEN Some(t) ELSE @]
writePayment(payment, paymentStatus, payment_type, t) ==
    [payment EXCEPT !.status = paymentStatus,
                    !.paymentType = Some(payment_type),
                    !.paidAt = IF paymentStatus = "SUCCESS" THEN Some(t) ELSE Null]

\* processNotification: verifySignature, await prisma.payment.findUnique
\* ({include: {booking}}), then the status pair and the data of the payment
\* update, whose paidAt is the Date taken here.
notifyRead(db, q, t) ==
    LET notification == q.data
        p == findPaymentByOrderId(db, notification.order_id)
    IN IF ~verifySignature(notification)
       THEN Reply(db, q, p, 403, Null)
       ELSE IF p = 0
       THEN Reply(db, q, 0, 404, Null)
       ELSE LET booking == db.bookings[db.payments[p].bookingId]
                m == mapStatus(notification.transaction_status,
                               notification.fraud_status, booking.status)
            IN Await(db, [q EXCEPT !.id = p], "notifyWritePayment",
                     [bookingId |-> db.payments[p].bookingId,
                      readStatus |-> booking.status,
                      paymentStatus |-> m.paymentStatus,
                      bookingStatus |-> m.bookingStatus,
                      customerId |-> booking.customerId,
                      paidAt |-> t,
                      bookingsCount |-> 0])

\* processNotification: await prisma.payment.update(...)
notifyWritePayment(db, q) ==
    LET written == [db EXCEPT !.payments[q.id] =
                       writePayment(@, q.snap.paymentStatus, q.data.payment_type,
                                    q.snap.paidAt)]
    IN IF q.snap.bookingStatus # q.snap.readStatus
       THEN Await(written, q, "notifyWriteBooking", q.snap)
       ELSE Reply(written, q, q.id, 200, Null)

\* processNotification: await prisma.booking.update({data: {status}}), and for
\* PAID on to the deriver.
notifyWriteBookingWithoutDeriver(db, q) ==
    Reply([db EXCEPT !.bookings[q.snap.bookingId].status = q.snap.bookingStatus],
          q, q.id, 200, Null)
notifyWriteBooking(db, q) ==
    LET written == [db EXCEPT !.bookings[q.snap.bookingId].status = q.snap.bookingStatus]
    IN IF q.snap.bookingStatus = "PAID"
       THEN Await(written, q, "deriveCountBookings", q.snap)
       ELSE Reply(written, q, q.id, 200, Null)

\* ------------------------------------------------------ a request on its own
\* The step a request stopped at pc takes when its await resolves at time t.
step(db, q, t) ==
    CASE q.pc = "createGetCustomer" -> createGetCustomer(db, q)
      [] q.pc = "createGetPackage" -> createGetPackage(db, q)
      [] q.pc = "createCheckAvailability" -> createCheckAvailability(db, q)
      [] q.pc = "createInsert" -> createInsert(db, q)
      [] q.pc = "updateGetBooking" -> updateGetBooking(db, q)
      [] q.pc = "updateCheckAvailability" -> updateCheckAvailability(db, q)
      [] q.pc = "updateWrite" -> updateWrite(db, q)
      [] q.pc = "cancelGetBooking" -> cancelGetBooking(db, q)
      [] q.pc = "cancelWrite" -> cancelWrite(db, q)
      [] q.pc = "statusWrite" -> statusWrite(db, q)
      [] q.pc = "deriveCountBookings" -> deriveCountBookings(db, q)
      [] q.pc = "deriveWriteCustomer" -> deriveWriteCustomer(db, q)
      [] q.pc = "getBookingById" -> getBookingByIdRequest(db, q)
      [] q.pc = "invoiceGetBooking" -> invoiceGetBooking(db, q)
      [] q.pc = "invoiceGenerate" -> invoiceGenerate(db, q)
      [] q.pc \in {"listBoth", "listFindMany"} -> listFindMany(db, q)
      [] q.pc = "listCount" -> listCount(db, q)
      [] q.pc = "checkAvailability" -> checkAvailabilityRequest(db, q)
      [] q.pc = "createPackage" -> createPackage(db, q)
      [] q.pc = "updatePackage" -> updatePackage(db, q)
      [] q.pc = "deactivatePackage" -> deactivatePackage(db, q)
      [] q.pc = "deletePackageCount" -> deletePackageCount(db, q)
      [] q.pc = "deletePackageDelete" -> deletePackageDelete(db, q)
      [] q.pc = "createCustomer" -> createCustomer(db, q)
      [] q.pc = "updateCustomer" -> updateCustomer(db, q)
      [] q.pc = "deleteCustomerCount" -> deleteCustomerCount(db, q)
      [] q.pc = "deleteCustomerDelete" -> deleteCustomerDelete(db, q)
      [] q.pc = "registerFindUnique" -> registerFindUnique(db, q)
      [] q.pc = "registerHash" -> registerHash(db, q)
      [] q.pc = "registerCreate" -> registerCreate(db, q)
      [] q.pc = "createInteraction" -> createInteraction(db, q)
      [] q.pc = "payGetBooking" -> payGetBooking(db, q, t)
      [] q.pc = "payCreateTransaction" -> payCreateTransaction(db, q, t)
      [] q.pc = "payInsert" -> payInsert(db, q)
      [] q.pc = "notifyRead" -> notifyRead(db, q, t)
      [] q.pc = "notifyWritePayment" -> notifyWritePayment(db, q)
      [] q.pc = "notifyWriteBooking" -> notifyWriteBooking(db, q)

\* A request run from where it stands to its response with no other request
\* between its awaits, all at time t: the response and the database it leaves.
RECURSIVE runAlone(_, _, _)
runAlone(db, q, t) ==
    IF q.pc = "done"
    THEN [code |-> q.code, db |-> db, out |-> q.out]
    ELSE LET s == step(db, q, t) IN runAlone(s.db, s.q, t)

Response(r) == [code |-> r.code, db |-> r.db]

\* customerService.updateCustomerStatus
updateCustomerStatus(db, customerId) ==
    runAlone(db, [Request("updateCustomerStatus", "deriveCountBookings", Null)
                     EXCEPT !.snap = [customerId |-> customerId, bookingsCount |-> 0]],
             0).db

\* bookingController.createBooking: body is the request body after
\* createBookingSchema, where customerId is optional.
createBookingRequest(db, user, body) ==
    Response(runAlone(db, Request("createBooking", "createGetCustomer",
                                  [user |-> user, body |-> body]), 0))

\* bookingService.createBooking
createBooking(db, data) == createBookingRequest(db, Staff, data)

\* bookingService.updateBooking
updateBooking(db, id, updateData) ==
    Response(runAlone(db, Request("updateBooking", "updateGetBooking",
                                  [id |-> id, updateData |-> updateData]), 0))

\* bookingService.cancelBooking
cancelBooking(db, id) ==
    Response(runAlone(db, Request("cancelBooking", "cancelGetBooking", [id |-> id]), 0))

\* bookingService.updateBookingStatus
updateBookingStatus(db, id, status) ==
    Response(runAlone(db, Request("updateBookingStatus", "statusWrite",
                                  [id |-> id, status |-> status]), 0))

\* bookingController.initiatePayment
initiatePayment(db, id, user, providerOk, t) ==
    runAlone(db, Request("initiatePayment", "payGetBooking",
                         [id |-> id, user |-> user, providerOk |-> providerOk]), t)

\* midtransService.processNotification
processNotification(db, notification, t) ==
    Response(runAlone(db, Request("processNotification", "notifyRead", notification), t))

\* bookingController.getBookingById
getBookingById(db, id, user) ==
    LET r == runAlone(db, Request("getBookingById", "getBookingById",
                                  [id |-> id, user |-> user]), 0)
    IN [code |-> r.code, out |-> r.out]

\* bookingController.downloadInvoice: the ownership check runs for customers only.
downloadInvoice(db, id, user) ==
    LET r == runAlone(db, Request("downloadInvoice",
                                  IF user.type = "CUSTOMER" THEN "invoiceGetBooking"
                                  ELSE "invoiceGenerate",
                                  [id |-> id, user |-> user]), 0)
    IN [code |-> r.code, out |-> r.out]

\* bookingController.getAllBookings
getAllBookings(db, user, query) ==
    LET r == runAlone(db, Request("getAllBookings", "listBoth",
                                  [user |-> user, query |-> query]), 0)
    IN [code |-> r.code, out |-> r.out[1]]

\* ------------------------------------------------------------- the requests
\* An order id no payment was created with: booking code 1, a later timestamp.
UnknownOrderId == OrderId(1, MaxTime + 1)
StatusCodes == {<<"200">>}
GrossAmounts == {<<"100.00">>}
PaymentTypes == {"bank_transfer"}

\* (transaction_status, fraud_status) pairs a provider notification carries.
TransactionPairs ==
    {<<"capture", "accept">>, <<"capture", "challenge">>, <<"capture", "deny">>,
     <<"settlement", "accept">>, <<"pending", "accept">>, <<"deny", "deny">>,
     <<"cancel", "accept">>, <<"expire", "accept">>, <<"refund", "accept">>,
     <<"authorize", "accept">>}

OrderIdsOf(db) == {db.payments[i].midtransOrderId : i \in DOMAIN db.payments}

SignatureFor(orderId, statusCode, grossAmount, key) ==
    Sha512(orderId \o statusCode \o grossAmount \o key)

\* What a sender without the server key submits: mark the order paid or closed.
ForgedPairs == {<<"settlement", "accept">>, <<"capture", "accept">>,
                <<"expire", "accept">>}

\* The payloads for one order: validly signed with every status pair, and
\* signed with a guessed key or unsigned.
SignedVariants(o, sc, g) ==
    {[order_id |-> o, status_code |-> sc, gross_amount |-> g,
      signature_key |-> SignatureFor(o, sc, g, ServerKey),
      transaction_status |-> tp[1], fraud_status |-> tp[2],
      payment_type |-> pt] : tp \in TransactionPairs, pt \in PaymentTypes}
    \cup
    {[order_id |-> o, status_code |-> sc, gross_amount |-> g,
      signature_key |-> sig,
      transaction_status |-> tp[1], fraud_status |-> tp[2],
      payment_type |-> pt] :
        sig \in {SignatureFor(o, sc, g, ForgedKey), Null},
        tp \in ForgedPairs, pt \in PaymentTypes}

\* The notification payloads delivered to the webhook, for known and unknown orders.
Notifications(db) ==
    UNION {SignedVariants(x[1], x[2], x[3]) :
              x \in (OrderIdsOf(db) \cup {UnknownOrderId})
                    \X StatusCodes \X GrossAmounts}

\* The payloads that arrive: every one for a known order; for an unknown order
\* the settlements.
ArrivingNotifications(db) ==
    {n \in Notifications(db) :
        n.order_id \in OrderIdsOf(db) \/ n.transaction_status = "settlement"}

BookingInputs ==
    [customerId : 1..(NumCustomers + 1), packageId : 1..(NumPackages + 1),
     participants : 1..MaxParticipants, departureDate : DateStrings,
     notes : {Null} \cup {Some(s) : s \in NoteStrings}]

\* Request bodies accepted by updateBookingSchema: every field optional.
PatchFields == {"participants", "departureDate", "notes", "status"}
FullPatches ==
    [participants : 1..MaxParticipants, departureDate : NewDateStrings,
     notes : {Some(s) : s \in NoteStrings}, status : BookingStatuses]
BookingPatches ==
    {[f \in fs |-> full[f]] : full \in FullPatches, fs \in SUBSET PatchFields}
EmptyPatch == [f \in {} |-> 0]

\* The patches that arrive: participants, notes or status alone, or
\* participants with a status.
ArrivingPatches ==
    {u \in BookingPatches :
        DOMAIN u \in {{}, {"participants"}, {"notes"}, {"status"},
                      {"participants", "status"}}}

\* updateBooking requests: the arriving patches on every booking, and one on an
\* absent id.
UpdateBookingInputs(db) ==
    ((DOMAIN db.bookings) \X ArrivingPatches)
    \cup {<<Len(db.bookings) + 1, EmptyPatch>>}

\* Request bodies accepted by updatePackageSchema (the modelled columns).
PackagePatches ==
    {[quota |-> q] : q \in 1..MaxQuota}
    \cup {[isActive |-> a] : a \in BOOLEAN}
    \cup {[price |-> p] : p \in Prices}

Users == {Staff} \cup {[type |-> "CUSTOMER", id |-> c] : c \in CustomerIds}

\* The requests as they arrive, each stopped at its first await.
CreateBookingRequest(user, body) ==
    Request("createBooking", "createGetCustomer", [user |-> user, body |-> body])
UpdateBookingRequest(id, updateData) ==
    Request("updateBooking", "updateGetBooking", [id |-> id, updateData |-> updateData])
CancelBookingRequest(id) ==
    Request("cancelBooking", "cancelGetBooking", [id |-> id])
UpdateBookingStatusRequest(id, status) ==
    Request("updateBookingStatus", "statusWrite", [id |-> id, status |-> status])
InitiatePaymentRequest(id, user, providerOk) ==
    Request("initiatePayment", "payGetBooking",
            [id |-> id, user |-> user, providerOk |-> providerOk])
ProcessNotificationRequest(notification) ==
    Request("processNotification", "notifyRead", notification)
CheckAvailabilityRequest(id, participants) ==
    Request("checkAvailability", "checkAvailability",
            [id |-> id, participants |-> participants])
CreatePackageRequest(data) == Request("createPackage", "createPackage", data)
UpdatePackageRequest(id, updateData) ==
    Request("updatePackage", "updatePackage", [id |-> id, updateData |-> updateData])
DeactivatePackageRequest(id) ==
    Request("deactivatePackage", "deactivatePackage", [id |-> id])
DeletePackageRequest(id) == Request("deletePackage", "deletePackageCount", [id |-> id])
CreateCustomerRequest(data) == Request("createCustomer", "createCustomer", data)
UpdateCustomerRequest(id, updateData) ==
    Request("updateCustomer", "updateCustomer", [id |-> id, updateData |-> updateData])
DeleteCustomerRequest(id) == Request("deleteCustomer", "deleteCustomerCount", [id |-> id])
RegisterRequest(body) == Request("register", "registerFindUnique", body)
CreateInteractionRequest(body) == Request("createInteraction", "createInteraction", body)
GetBookingByIdRequest(id, user) ==
    Request("getBookingById", "getBookingById", [id |-> id, user |-> user])
GetAllBookingsRequest(user, query) ==
    Request("getAllBookings", "listBoth", [user |-> user, query |-> query])
DownloadInvoiceRequest(id, user) ==
    Request("downloadInvoice",
            IF user.type = "CUSTOMER" THEN "invoiceGetBooking" ELSE "invoiceGenerate",
            [id |-> id, user |-> user])

\* ------------------------------------------------------------- the database
EmailOf(c) == <<"customer", c>>
SeedPackages ==
    [p \in PackageIds |->
        [quota |-> MaxQuota, price |-> CHOOSE x \in Prices : TRUE, isActive |-> TRUE]]
\* prisma/seed.js: john@example.com is created PROSPECT, jane@example.com
\* (customer 2) ACTIVE, neither with a booking.
SeedCustomers ==
    [c \in CustomerIds |->
        [status |-> IF c = 2 THEN "ACTIVE" ELSE "PROSPECT", email |-> EmailOf(c)]]

\* A database holding these packages and customers (ids 1..n) and no booking.
Seeded(pk, cs) ==
    [packages |-> pk, customers |-> cs, bookings |-> <<>>, payments |-> <<>>,
     interactions |-> <<>>,
     autoIncrement |-> [travel_packages |-> Cardinality(DOMAIN pk),
                        customers |-> Cardinality(DOMAIN cs)]]

NoRequest == [op |-> "none", id |-> 0, code |-> 0]

\* The program started on database db with the requests rs in flight.
Starts(db, rs) ==
    /\ packages = db.packages
    /\ customers = db.customers
    /\ bookings = db.bookings
    /\ payments = db.payments
    /\ interactions = db.interactions
    /\ autoIncrement = db.autoIncrement
    /\ now = 0
    /\ last = NoRequest
    /\ everPaid = {}
    /\ reqs = rs

NoneInFlight == [r \in 1..MaxInFlight |-> Idle]
AllDone == \A r \in DOMAIN reqs : reqs[r].pc = "done"

\* -------------------------------------------------------------- the actions
\* Request r takes the step with outcome s: the writes of the step and, when
\* the step answers, the response (last is the response of the step just
\* taken, NoRequest when it gave none).
Apply(r, s) ==
    /\ packages' = s.db.packages
    /\ customers' = s.db.customers
    /\ bookings' = s.db.bookings
    /\ payments' = s.db.payments
    /\ interactions' = s.db.interactions
    /\ autoIncrement' = s.db.autoIncrement
    /\ reqs' = [reqs EXCEPT ![r] = IF s.q.pc = "done" /\ ~s.q.keep THEN Idle ELSE s.q]
    /\ last' = IF s.q.pc = "done"
               THEN [op |-> s.q.op, id |-> s.q.id, code |-> s.q.code]
               ELSE NoRequest
    /\ everPaid' = everPaid \cup {i \in DOMAIN s.db.bookings :
                                     s.db.bookings[i].status \in PaidStatuses}
    /\ UNCHANGED now

\* The slots a request can arrive in.
Free == {r \in DOMAIN reqs : reqs[r] = Idle}

\* One action per await: q is the request in slot r, or the one arriving there.
CreateGetCustomer(r, q) ==
    q.pc = "createGetCustomer" /\ Apply(r, createGetCustomer(DB, q))
CreateGetPackage(r, q) ==
    q.pc = "createGetPackage" /\ Apply(r, createGetPackage(DB, q))
CreateCheckAvailability(r, q) ==
    q.pc = "createCheckAvailability" /\ Apply(r, createCheckAvailability(DB, q))
CreateInsert(r, q) ==
    q.pc = "createInsert" /\ Apply(r, createInsert(DB, q))
UpdateGetBooking(r, q) ==
    q.pc = "updateGetBooking" /\ Apply(r, updateGetBooking(DB, q))
UpdateCheckAvailability(r, q) ==
    q.pc = "updateCheckAvailability" /\ Apply(r, updateCheckAvailability(DB, q))
UpdateWrite(r, q) ==
    q.pc = "updateWrite" /\ Apply(r, updateWrite(DB, q))
CancelGetBooking(r, q) ==
    q.pc = "cancelGetBooking" /\ Apply(r, cancelGetBooking(DB, q))
CancelWrite(r, q) ==
    q.pc = "cancelWrite" /\ Apply(r, cancelWrite(DB, q))
StatusWrite(r, q) ==
    q.pc = "statusWrite" /\ Apply(r, statusWrite(DB, q))
DeriveCountBookings(r, q) ==
    q.pc = "deriveCountBookings" /\ Apply(r, deriveCountBookings(DB, q))
DeriveWriteCustomer(r, q) ==
    q.pc = "deriveWriteCustomer" /\ Apply(r, deriveWriteCustomer(DB, q))
PayGetBooking(r, q) ==
    q.pc = "payGetBooking" /\ Apply(r, payGetBooking(DB, q, now))
PayCreateTransaction(r, q) ==
    q.pc = "payCreateTransaction" /\ Apply(r, payCreateTransaction(DB, q, now))
PayInsert(r, q) ==
    q.pc = "payInsert" /\ Apply(r, payInsert(DB, q))
NotifyRead(r, q) ==
    q.pc = "notifyRead" /\ Apply(r, notifyRead(DB, q, now))
NotifyWritePayment(r, q) ==
    q.pc = "notifyWritePayment" /\ Apply(r, notifyWritePayment(DB, q))
NotifyWriteBooking(r, q) ==
    q.pc = "notifyWriteBooking" /\ Apply(r, notifyWriteBooking(DB, q))
CheckAvailability(r, q) ==
    q.pc = "checkAvailability" /\ Apply(r, checkAvailabilityRequest(DB, q))
CreatePackage(r, q) ==
    q.pc = "createPackage" /\ Apply(r, createPackage(DB, q))
UpdatePackage(r, q) ==
    q.pc = "updatePackage" /\ Apply(r, updatePackage(DB, q))
DeactivatePackage(r, q) ==
    q.pc = "deactivatePackage" /\ Apply(r, deactivatePackage(DB, q))
DeletePackageCount(r, q) ==
    q.pc = "deletePackageCount" /\ Apply(r, deletePackageCount(DB, q))
DeletePackageDelete(r, q) ==
    q.pc = "deletePackageDelete" /\ Apply(r, deletePackageDelete(DB, q))
CreateCustomer(r, q) ==
    q.pc = "createCustomer" /\ Apply(r, createCustomer(DB, q))
UpdateCustomer(r, q) ==
    q.pc = "updateCustomer" /\ Apply(r, updateCustomer(DB, q))
DeleteCustomerCount(r, q) ==
    q.pc = "deleteCustomerCount" /\ Apply(r, deleteCustomerCount(DB, q))
DeleteCustomerDelete(r, q) ==
    q.pc = "deleteCustomerDelete" /\ Apply(r, deleteCustomerDelete(DB, q))
RegisterFindUnique(r, q) ==
    q.pc = "registerFindUnique" /\ Apply(r, registerFindUnique(DB, q))
RegisterHash(r, q) ==
    q.pc = "registerHash" /\ Apply(r, registerHash(DB, q))
RegisterCreate(r, q) ==
    q.pc = "registerCreate" /\ Apply(r, registerCreate(DB, q))
CreateInteraction(r, q) ==
    q.pc = "createInteraction" /\ Apply(r, createInteraction(DB, q))
GetBookingById(r, q) ==
    q.pc = "getBookingById" /\ Apply(r, getBookingByIdRequest(DB, q))
InvoiceGetBooking(r, q) ==
    q.pc = "invoiceGetBooking" /\ Apply(r, invoiceGetBooking(DB, q))
InvoiceGenerate(r, q) ==
    q.pc = "invoiceGenerate" /\ Apply(r, invoiceGenerate(DB, q))
ListFindMany(r, q) ==
    q.pc \in {"listBoth", "listFindMany"} /\ Apply(r, listFindMany(DB, q))
ListCount(r, q) ==
    q.pc \in {"listBoth", "listCount"} /\ Apply(r, listCount(DB, q))

\* Time passes.
Tick ==
    /\ now < MaxTime
    /\ now' = now + 1
    /\ UNCHANGED <<packages, customers, bookings, payments, interactions,
                   autoIncrement, last,
                   everPaid, reqs>>

\* ----------------------------------------------- one booking, and its payment
Init ==
    \E pk \in [PackageIds -> [quota : 1..MaxQuota, price : Prices, isActive : {TRUE}]] :
        Starts(Seeded(pk, SeedCustomers), NoneInFlight)

\* A request arrives and its first await resolves, or an await of a request
\* in flight resolves, or time passes.
Next ==
    \/ \E r \in Free, data \in BookingInputs :
          /\ Len(bookings) < MaxBookings
          /\ CreateGetCustomer(r, CreateBookingRequest(Staff, data))
    \/ \E r \in Free, x \in UpdateBookingInputs(DB) :
          UpdateGetBooking(r, UpdateBookingRequest(x[1], x[2]))
    \/ \E r \in Free, id \in 1..(Len(bookings) + 1) :
          CancelGetBooking(r, CancelBookingRequest(id))
    \/ \E r \in Free, id \in 1..(NumPackages + 1), updateData \in PackagePatches :
          UpdatePackage(r, UpdatePackageRequest(id, updateData))
    \/ \E r \in Free, id \in 1..(Len(bookings) + 1), user \in Users, providerOk \in BOOLEAN :
          PayGetBooking(r, InitiatePaymentRequest(id, user, providerOk))
    \/ \E r \in Free, notification \in ArrivingNotifications(DB) :
          NotifyRead(r, ProcessNotificationRequest(notification))
    \/ \E r \in DOMAIN reqs : CreateGetPackage(r, reqs[r])
    \/ \E r \in DOMAIN reqs : CreateCheckAvailability(r, reqs[r])
    \/ \E r \in DOMAIN reqs : CreateInsert(r, reqs[r])
    \/ \E r \in DOMAIN reqs : UpdateCheckAvailability(r, reqs[r])
    \/ \E r \in DOMAIN reqs : UpdateWrite(r, reqs[r])
    \/ \E r \in DOMAIN reqs : CancelWrite(r, reqs[r])
    \/ \E r \in DOMAIN reqs : PayCreateTransaction(r, reqs[r])
    \/ \E r \in DOMAIN reqs : PayInsert(r, reqs[r])
    \/ \E r \in DOMAIN reqs : NotifyWritePayment(r, reqs[r])
    \/ \E r \in DOMAIN reqs : NotifyWriteBooking(r, reqs[r])
    \/ \E r \in DOMAIN reqs : DeriveCountBookings(r, reqs[r])
    \/ \E r \in DOMAIN reqs : DeriveWriteCustomer(r, reqs[r])
    \/ Tick

Spec == Init /\ [][Next]_vars

\* ------------------------------------- several bookings sharing one package
CapacityBookingInputs == {data \in BookingInputs : data.notes = Null}

\* updateBooking requests that touch the capacity sum: participants and status.
CapacityPatches == {u \in BookingPatches : DOMAIN u \subseteq {"participants", "status"}}
CapacityUpdateInputs(db) == (DOMAIN db.bookings) \X CapacityPatches

\* updatePackage requests: a new quota, (de)activation, a new price.
CapacityPackagePatches ==
    {[quota |-> q] : q \in 1..MaxQuota}
    \cup {[isActive |-> a] : a \in BOOLEAN}
    \cup {[price |-> p] : p \in NewPrices}

NextCapacity ==
    \/ \E r \in Free, data \in CapacityBookingInputs :
          /\ Len(bookings) < MaxCapacityBookings
          /\ CreateGetCustomer(r, CreateBookingRequest(Staff, data))
    \/ \E r \in Free, x \in CapacityUpdateInputs(DB) :
          UpdateGetBooking(r, UpdateBookingRequest(x[1], x[2]))
    \/ \E r \in Free, id \in DOMAIN bookings : CancelGetBooking(r, CancelBookingRequest(id))
    \/ \E r \in Free, id \in PackageIds, updateData \in CapacityPackagePatches :
          UpdatePackage(r, UpdatePackageRequest(id, updateData))
    \/ \E r \in Free, id \in 1..(NumPackages + 1), participants \in 0..MaxParticipants :
          CheckAvailability(r, CheckAvailabilityRequest(id, participants))
    \/ \E r \in DOMAIN reqs : CreateGetPackage(r, reqs[r])
    \/ \E r \in DOMAIN reqs : CreateCheckAvailability(r, reqs[r])
    \/ \E r \in DOMAIN reqs : CreateInsert(r, reqs[r])
    \/ \E r \in DOMAIN reqs : UpdateCheckAvailability(r, reqs[r])
    \/ \E r \in DOMAIN reqs : UpdateWrite(r, reqs[r])
    \/ \E r \in DOMAIN reqs : CancelWrite(r, reqs[r])

SpecCapacity == Init /\ [][NextCapacity]_vars

\* ------------------------------------------- customers acting on bookings
Owners == Users \ {Staff}

\* Request bodies of POST /bookings, with and without a customerId.
BookingBodies ==
    LET withId == [customerId : 1..(NumCustomers + 1), packageId : PackageIds,
                   participants : {1}, departureDate : DateStrings, notes : {Null}]
    IN withId \cup {[f \in DOMAIN d \ {"customerId"} |-> d[f]] : d \in withId}

\* Query strings of GET /bookings.
BookingQueries ==
    [customerId : {Null} \cup {Some(c) : c \in CustomerIds},
     status : {Null, Some("PENDING")},
     page : 1..2, limit : {1, DefaultLimit}]

InitOwnership ==
    \E pk \in [PackageIds -> [quota : {MaxQuota}, price : Prices, isActive : {TRUE}]] :
        Starts(Seeded(pk, SeedCustomers), NoneInFlight)

NextOwnership ==
    \/ \E r \in Free, user \in Users, body \in BookingBodies :
          /\ Len(bookings) < MaxCapacityBookings
          /\ CreateGetCustomer(r, CreateBookingRequest(user, body))
    \/ \E r \in Free, id \in 1..(Len(bookings) + 1), user \in Users :
          GetBookingById(r, GetBookingByIdRequest(id, user))
    \/ \E r \in Free, user \in Users, query \in BookingQueries :
          ListFindMany(r, GetAllBookingsRequest(user, query))
    \/ \E r \in Free, user \in Users, query \in BookingQueries :
          ListCount(r, GetAllBookingsRequest(user, query))
    \/ \E r \in Free, id \in 1..(Len(bookings) + 1), user \in Users, providerOk \in BOOLEAN :
          PayGetBooking(r, InitiatePaymentRequest(id, user, providerOk))
    \/ \E r \in Free, id \in 1..(Len(bookings) + 1), user \in Owners :
          InvoiceGetBooking(r, DownloadInvoiceRequest(id, user))
    \/ \E r \in Free, id \in 1..(Len(bookings) + 1) :
          InvoiceGenerate(r, DownloadInvoiceRequest(id, Staff))
    \/ \E r \in DOMAIN reqs : CreateGetPackage(r, reqs[r])
    \/ \E r \in DOMAIN reqs : CreateCheckAvailability(r, reqs[r])
    \/ \E r \in DOMAIN reqs : CreateInsert(r, reqs[r])
    \/ \E r \in DOMAIN reqs : ListFindMany(r, reqs[r])
    \/ \E r \in DOMAIN reqs : ListCount(r, reqs[r])
    \/ \E r \in DOMAIN reqs : PayCreateTransaction(r, reqs[r])
    \/ \E r \in DOMAIN reqs : PayInsert(r, reqs[r])
    \/ \E r \in DOMAIN reqs : InvoiceGenerate(r, reqs[r])
    \/ Tick

SpecOwnership == InitOwnership /\ [][NextOwnership]_vars

\* ---------------------------------------- one customer paying several bookings
\* n bookings of one participant, each created and then initiated at time 0.
RECURSIVE BookedAndInitiated(_, _)
BookedAndInitiated(db, n) ==
    IF n = 0 THEN db
    ELSE LET created ==
                 createBooking(BookedAndInitiated(db, n - 1),
                               [customerId |-> 1, packageId |-> 1, participants |-> 1,
                                departureDate |-> "2026-01-01T00:00:00Z",
                                notes |-> Null]).db
         IN initiatePayment(created, Len(created.bookings), Staff, TRUE, 0).db

LoyaltyDB ==
    BookedAndInitiated(
        Seeded([p \in PackageIds |->
                   [quota |-> MaxLoyaltyBookings,
                    price |-> CHOOSE x \in Prices : TRUE,
                    isActive |-> TRUE]],
               SeedCustomers),
        MaxLoyaltyBookings)

InitLoyalty == Starts(LoyaltyDB, NoneInFlight)

\* Validly signed payloads that pay or refuse one of the existing orders.
LoyaltyNotifications(db) ==
    {n \in Notifications(db) :
        /\ verifySignature(n)
        /\ n.order_id \in OrderIdsOf(db)
        /\ n.transaction_status \in {"settlement", "deny"}}

\* updateBooking requests that only set a status: staff confirm or complete.
StatusPatches == {[status |-> s] : s \in {"CONFIRMED", "COMPLETED"}}

NextLoyalty ==
    \/ \E r \in Free, notification \in LoyaltyNotifications(DB) :
          NotifyRead(r, ProcessNotificationRequest(notification))
    \/ \E r \in Free, id \in DOMAIN bookings, updateData \in StatusPatches :
          UpdateGetBooking(r, UpdateBookingRequest(id, updateData))
    \/ \E r \in Free, id \in DOMAIN bookings : CancelGetBooking(r, CancelBookingRequest(id))
    \/ \E r \in Free, id \in DOMAIN bookings, status \in CustomerStatuses :
          UpdateCustomer(r, UpdateCustomerRequest(bookings[id].customerId,
                                                  [status |-> status]))
    \/ \E r \in DOMAIN reqs : NotifyWritePayment(r, reqs[r])
    \/ \E r \in DOMAIN reqs : NotifyWriteBooking(r, reqs[r])
    \/ \E r \in DOMAIN reqs : DeriveCountBookings(r, reqs[r])
    \/ \E r \in DOMAIN reqs : DeriveWriteCustomer(r, reqs[r])
    \/ \E r \in DOMAIN reqs : UpdateWrite(r, reqs[r])
    \/ \E r \in DOMAIN reqs : CancelWrite(r, reqs[r])

SpecLoyalty == InitLoyalty /\ [][NextLoyalty]_vars

\* ------------------------- the package catalogue and the customer records
\* Request bodies accepted by createPackageSchema and updatePackageSchema (the
\* modelled columns).
PackageInputs == [quota : {MaxQuota}, price : Prices]
CatalogPatches ==
    {[quota |-> q] : q \in 1..MaxQuota}
    \cup {[isActive |-> TRUE]}
    \cup {[price |-> p] : p \in NewPrices}

\* createBooking requests for the packages and customers there can be.
CatalogBookingInputs ==
    [customerId : 1..(NumCustomers + 1), packageId : 1..MaxCatalog,
     participants : 1..MaxParticipants, departureDate : DateStrings, notes : {Null}]

NextCatalog ==
    \/ \E r \in Free, data \in PackageInputs :
          /\ autoIncrement.travel_packages < MaxCatalog
          /\ CreatePackage(r, CreatePackageRequest(data))
    \/ \E r \in Free, id \in 1..MaxCatalog, updateData \in CatalogPatches :
          UpdatePackage(r, UpdatePackageRequest(id, updateData))
    \/ \E r \in Free, id \in 1..MaxCatalog : DeactivatePackage(r, DeactivatePackageRequest(id))
    \/ \E r \in Free, id \in 1..MaxCatalog : DeletePackageCount(r, DeletePackageRequest(id))
    \/ \E r \in Free, id \in 1..MaxCatalog, participants \in 0..MaxParticipants :
          CheckAvailability(r, CheckAvailabilityRequest(id, participants))
    \/ \E r \in Free, id \in CustomerIds : DeleteCustomerCount(r, DeleteCustomerRequest(id))
    \/ \E r \in Free, data \in CatalogBookingInputs :
          /\ Len(bookings) < MaxBookings
          /\ CreateGetCustomer(r, CreateBookingRequest(Staff, data))
    \/ \E r \in Free, id \in DOMAIN bookings : CancelGetBooking(r, CancelBookingRequest(id))
    \/ \E r \in DOMAIN reqs : DeletePackageDelete(r, reqs[r])
    \/ \E r \in DOMAIN reqs : DeleteCustomerDelete(r, reqs[r])
    \/ \E r \in DOMAIN reqs : CreateGetPackage(r, reqs[r])
    \/ \E r \in DOMAIN reqs : CreateCheckAvailability(r, reqs[r])
    \/ \E r \in DOMAIN reqs : CreateInsert(r, reqs[r])
    \/ \E r \in DOMAIN reqs : CancelWrite(r, reqs[r])

SpecCatalog == Init /\ [][NextCatalog]_vars

\* ------------------------------------------------------ the customer records
\* Customers register themselves, staff create, change and delete customer
\* records and log interactions.
\* Request bodies of POST /customers and PUT /customers/:id (the modelled
\* columns; status is optional in both schemas, PROSPECT by default at POST).
CustomerEmails == {EmailOf(c) : c \in 1..MaxCustomers}
CustomerInputs == [status : CustomerStatuses, email : CustomerEmails]
CustomerPatches ==
    {[email |-> e] : e \in CustomerEmails} \cup {[status |-> s] : s \in CustomerStatuses}

\* Request bodies of POST /auth/customer/register, which no schema validates.
\* name, email and password are what the handler needs; each may be missing.
RegisterBodies ==
    [name : {Some("name")}, email : {Some(e) : e \in CustomerEmails},
     password : {Some("secret")}]
    \cup {[name |-> Some("name"), email |-> Null, password |-> Some("secret")],
          [name |-> Some("name"), email |-> Some(EmailOf(MaxCustomers)),
           password |-> Null],
          [name |-> Null, email |-> Some(EmailOf(MaxCustomers)),
           password |-> Some("secret")]}

\* Request bodies accepted by createInteractionSchema.
InteractionInputs == [customerId : 1..MaxCustomers]

CustomerBookingInputs ==
    [customerId : 1..MaxCustomers, packageId : PackageIds, participants : {1},
     departureDate : DateStrings, notes : {Null}]

InitCustomers == Starts(Seeded(SeedPackages, SeedCustomers), NoneInFlight)

NextCustomers ==
    \/ \E r \in Free, body \in RegisterBodies :
          /\ autoIncrement.customers < MaxCustomers
          /\ RegisterFindUnique(r, RegisterRequest(body))
    \/ \E r \in Free, data \in CustomerInputs :
          /\ autoIncrement.customers < MaxCustomers
          /\ CreateCustomer(r, CreateCustomerRequest(data))
    \/ \E r \in Free, id \in 1..MaxCustomers, updateData \in CustomerPatches :
          UpdateCustomer(r, UpdateCustomerRequest(id, updateData))
    \/ \E r \in Free, id \in 1..MaxCustomers :
          DeleteCustomerCount(r, DeleteCustomerRequest(id))
    \/ \E r \in Free, body \in InteractionInputs :
          /\ Len(interactions) < MaxInteractions
          /\ CreateInteraction(r, CreateInteractionRequest(body))
    \/ \E r \in Free, data \in CustomerBookingInputs :
          /\ Len(bookings) < MaxBookings
          /\ CreateGetCustomer(r, CreateBookingRequest(Staff, data))
    \/ \E r \in DOMAIN reqs : RegisterHash(r, reqs[r])
    \/ \E r \in DOMAIN reqs : RegisterCreate(r, reqs[r])
    \/ \E r \in DOMAIN reqs : DeleteCustomerDelete(r, reqs[r])
    \/ \E r \in DOMAIN reqs : CreateGetPackage(r, reqs[r])
    \/ \E r \in DOMAIN reqs : CreateCheckAvailability(r, reqs[r])
    \/ \E r \in DOMAIN reqs : CreateInsert(r, reqs[r])

SpecCustomers == InitCustomers /\ [][NextCustomers]_vars

\* ------------------- bookingService.updateBookingStatus called on its own
\* The function is exported by bookingService and called by no route,
\* controller or service; here a caller hands it every id and status.
NextInternal ==
    \/ \E r \in Free, data \in CapacityBookingInputs :
          /\ Len(bookings) < MaxCapacityBookings
          /\ CreateGetCustomer(r, CreateBookingRequest(Staff, data))
    \/ \E r \in Free, id \in 1..(Len(bookings) + 1), status \in BookingStatuses :
          StatusWrite(r, UpdateBookingStatusRequest(id, status))
    \/ \E r \in DOMAIN reqs : CreateGetPackage(r, reqs[r])
    \/ \E r \in DOMAIN reqs : CreateCheckAvailability(r, reqs[r])
    \/ \E r \in DOMAIN reqs : CreateInsert(r, reqs[r])
    \/ \E r \in DOMAIN reqs : DeriveCountBookings(r, reqs[r])
    \/ \E r \in DOMAIN reqs : DeriveWriteCustomer(r, reqs[r])

SpecInternal == Init /\ [][NextInternal]_vars

\* --------------------------------------------- requests that run concurrently
\* NumRequests requests drawn from a set, all in flight from the start, their
\* responses kept.
InFlight(requests) == [1..NumRequests -> {Kept(q) : q \in requests}]

\* createBooking against createBooking -----------------------------------------
InitCreateRace ==
    \E pk \in [PackageIds -> [quota : 1..MaxQuota, price : Prices, isActive : {TRUE}]],
       rs \in InFlight({CreateBookingRequest(Staff, d) : d \in BookingInputs}) :
        Starts(Seeded(pk, SeedCustomers), rs)

NextCreateRace ==
    \/ \E r \in DOMAIN reqs : CreateGetCustomer(r, reqs[r])
    \/ \E r \in DOMAIN reqs : CreateGetPackage(r, reqs[r])
    \/ \E r \in DOMAIN reqs : CreateCheckAvailability(r, reqs[r])
    \/ \E r \in DOMAIN reqs : CreateInsert(r, reqs[r])

SpecCreateRace == InitCreateRace /\ [][NextCreateRace]_vars

\* processNotification against processNotification -----------------------------
\* A PENDING booking whose payment was initiated: what createBooking followed by
\* initiatePayment leave in the database.
PendingBookingDB ==
    createBooking(Seeded(SeedPackages, SeedCustomers),
                  [customerId |-> 1, packageId |-> 1, participants |-> 1,
                   departureDate |-> "2026-01-01T00:00:00Z", notes |-> Null]).db
PendingPaymentDB == initiatePayment(PendingBookingDB, 1, Staff, TRUE, 0).db

\* Validly signed payloads for the order of PendingPaymentDB.
SignedNotifications ==
    {m \in Notifications(PendingPaymentDB) :
        /\ verifySignature(m)
        /\ m.order_id \in OrderIdsOf(PendingPaymentDB)}

InitNotifyRace ==
    \E rs \in InFlight({ProcessNotificationRequest(n) : n \in SignedNotifications}) :
        Starts(PendingPaymentDB, rs)

NextNotifyRace ==
    \/ \E r \in DOMAIN reqs : NotifyRead(r, reqs[r])
    \/ \E r \in DOMAIN reqs : NotifyWritePayment(r, reqs[r])
    \/ \E r \in DOMAIN reqs : NotifyWriteBooking(r, reqs[r])
    \/ \E r \in DOMAIN reqs : DeriveCountBookings(r, reqs[r])
    \/ \E r \in DOMAIN reqs : DeriveWriteCustomer(r, reqs[r])

SpecNotifyRace == InitNotifyRace /\ [][NextNotifyRace]_vars

\* updateBooking against processNotification -----------------------------------
InitUpdateRace ==
    \E u \in BookingPatches, n \in SignedNotifications :
        Starts(PendingPaymentDB,
               <<Kept(UpdateBookingRequest(1, u)), Kept(ProcessNotificationRequest(n))>>)

NextUpdateRace ==
    \/ \E r \in DOMAIN reqs : UpdateGetBooking(r, reqs[r])
    \/ \E r \in DOMAIN reqs : UpdateCheckAvailability(r, reqs[r])
    \/ \E r \in DOMAIN reqs : UpdateWrite(r, reqs[r])
    \/ \E r \in DOMAIN reqs : NotifyRead(r, reqs[r])
    \/ \E r \in DOMAIN reqs : NotifyWritePayment(r, reqs[r])
    \/ \E r \in DOMAIN reqs : NotifyWriteBooking(r, reqs[r])
    \/ \E r \in DOMAIN reqs : DeriveCountBookings(r, reqs[r])
    \/ \E r \in DOMAIN reqs : DeriveWriteCustomer(r, reqs[r])

SpecUpdateRace == InitUpdateRace /\ [][NextUpdateRace]_vars

\* initiatePayment against initiatePayment --------------------------------------
\* Two PENDING bookings, no payment initiated yet.
TwoBookingsDB ==
    LET data == [customerId |-> 1, packageId |-> 1, participants |-> 1,
                 departureDate |-> "2026-01-01T00:00:00Z", notes |-> Null]
    IN createBooking(createBooking(Seeded(SeedPackages, SeedCustomers), data).db, data).db

InitPaymentRace ==
    \E rs \in InFlight({InitiatePaymentRequest(id, user, ok) :
                           id \in 1..(Len(TwoBookingsDB.bookings) + 1),
                           user \in Users, ok \in BOOLEAN}) :
        Starts(TwoBookingsDB, rs)

NextPaymentRace ==
    \/ \E r \in DOMAIN reqs : PayGetBooking(r, reqs[r])
    \/ \E r \in DOMAIN reqs : PayCreateTransaction(r, reqs[r])
    \/ \E r \in DOMAIN reqs : PayInsert(r, reqs[r])
    \/ Tick

SpecPaymentRace == InitPaymentRace /\ [][NextPaymentRace]_vars

\* createBooking, updateBooking, cancelBooking and deletePackage against one
\* another, on a package with no booking yet or with one seat left ---------------
BookingRaceRequests ==
    {CreateBookingRequest(Staff, d) :
        d \in {x \in CapacityBookingInputs : x.customerId = 1 /\ x.packageId = 1}}
    \cup {UpdateBookingRequest(1, u) : u \in CapacityPatches}
    \cup {CancelBookingRequest(1), DeletePackageRequest(1)}

InitBookingRace ==
    \E db \in {Seeded(SeedPackages, SeedCustomers), PendingBookingDB},
       rs \in InFlight(BookingRaceRequests) :
        Starts(db, rs)

NextBookingRace ==
    \/ \E r \in DOMAIN reqs : CreateGetCustomer(r, reqs[r])
    \/ \E r \in DOMAIN reqs : CreateGetPackage(r, reqs[r])
    \/ \E r \in DOMAIN reqs : CreateCheckAvailability(r, reqs[r])
    \/ \E r \in DOMAIN reqs : CreateInsert(r, reqs[r])
    \/ \E r \in DOMAIN reqs : UpdateGetBooking(r, reqs[r])
    \/ \E r \in DOMAIN reqs : UpdateCheckAvailability(r, reqs[r])
    \/ \E r \in DOMAIN reqs : UpdateWrite(r, reqs[r])
    \/ \E r \in DOMAIN reqs : CancelGetBooking(r, reqs[r])
    \/ \E r \in DOMAIN reqs : CancelWrite(r, reqs[r])
    \/ \E r \in DOMAIN reqs : DeletePackageCount(r, reqs[r])
    \/ \E r \in DOMAIN reqs : DeletePackageDelete(r, reqs[r])

SpecBookingRace == InitBookingRace /\ [][NextBookingRace]_vars

\* customer records against each other --------------------------------------
\* Two of these requests arrive together and interleave at their awaits.
CustomerRaceRequests ==
    {RegisterRequest(body) : body \in RegisterBodies}
    \cup {CreateCustomerRequest(data) : data \in CustomerInputs}
    \cup {UpdateCustomerRequest(id, updateData) :
              id \in CustomerIds, updateData \in CustomerPatches}
    \cup {DeleteCustomerRequest(id) : id \in CustomerIds}
    \cup {CreateInteractionRequest(body) : body \in InteractionInputs}
    \cup {CreateBookingRequest(Staff, data) : data \in CustomerBookingInputs}

InitCustomerRace ==
    \E rs \in InFlight(CustomerRaceRequests) :
        Starts(Seeded(SeedPackages, SeedCustomers), rs)

NextCustomerRace ==
    \/ \E r \in DOMAIN reqs : RegisterFindUnique(r, reqs[r])
    \/ \E r \in DOMAIN reqs : RegisterHash(r, reqs[r])
    \/ \E r \in DOMAIN reqs : RegisterCreate(r, reqs[r])
    \/ \E r \in DOMAIN reqs : CreateCustomer(r, reqs[r])
    \/ \E r \in DOMAIN reqs : UpdateCustomer(r, reqs[r])
    \/ \E r \in DOMAIN reqs : DeleteCustomerCount(r, reqs[r])
    \/ \E r \in DOMAIN reqs : DeleteCustomerDelete(r, reqs[r])
    \/ \E r \in DOMAIN reqs : CreateInteraction(r, reqs[r])
    \/ \E r \in DOMAIN reqs : CreateGetCustomer(r, reqs[r])
    \/ \E r \in DOMAIN reqs : CreateGetPackage(r, reqs[r])
    \/ \E r \in DOMAIN reqs : CreateCheckAvailability(r, reqs[r])
    \/ \E r \in DOMAIN reqs : CreateInsert(r, reqs[r])

SpecCustomerRace == InitCustomerRace /\ [][NextCustomerRace]_vars

\* ------------------------------------------------- claims, requests in turn
\* What the claims call a validly signed payload, stated apart from verifySignature.
SignatureMatches(n) ==
    n.signature_key = SignatureFor(n.order_id, n.status_code, n.gross_amount, ServerKey)

\* The fields of a payment and its booking the webhook claims speak of.
PaymentView(db, p) ==
    [status |-> db.payments[p].status,
     paymentType |-> db.payments[p].paymentType,
     paidAt |-> db.payments[p].paidAt,
     bookingStatus |-> db.bookings[db.payments[p].bookingId].status]

\* C1: in every reachable state, for every package the participants of its
\* bookings in PENDING, PAID or CONFIRMED sum to at most its quota.
C1_CapacityInvariant ==
    \A p \in DOMAIN packages : bookedParticipants(DB, p) <= packages[p].quota

\* C3: from every reachable state and for every validly signed payload that is
\* accepted, processing the same payload a second time (at once or later)
\* succeeds and leaves the payment's status, paymentType and paidAt and the
\* booking's status as the first call left them.
C3_IdempotentWebhook ==
    \A n \in Notifications(DB) :
        LET first == processNotification(DB, n, now)
            p == findPaymentByOrderId(DB, n.order_id)
        IN (SignatureMatches(n) /\ first.code = 200) =>
              \A t \in now..MaxTime :
                  LET second == processNotification(first.db, n, t)
                  IN /\ second.code = 200
                     /\ PaymentView(second.db, p) = PaymentView(first.db, p)

TerminalPayment == {"SUCCESS", "FAILED", "EXPIRED", "REFUND"}

\* C4: a payment whose status is SUCCESS, FAILED, EXPIRED or REFUND is never
\* set back to PENDING by a later step.
C4_NoRegressionToPending ==
    [][\A i \in DOMAIN payments :
          payments[i].status \in TerminalPayment => payments'[i].status # "PENDING"]_vars

\* C6: a notification whose signature_key is not the SHA-512 of
\* order_id + status_code + gross_amount + server key (a missing one included)
\* is answered 403 and changes no payment, booking, customer or package.
C6_InvalidSignatureRejected ==
    \A n \in Notifications(DB) :
        ~SignatureMatches(n) =>
            processNotification(DB, n, now) = [code |-> 403, db |-> DB]

C6_Witness ==
    /\ last.op = "processNotification"
    /\ last.code = 403
    /\ Len(payments) > 0

\* C7: a validly signed notification whose order_id matches no payment is
\* answered 404, creates no payment and changes no record.
C7_UnknownOrderNotFound ==
    \A n \in Notifications(DB) :
        (SignatureMatches(n) /\ n.order_id \notin OrderIdsOf(DB)) =>
            processNotification(DB, n, now) = [code |-> 404, db |-> DB]

C7_Witness ==
    /\ last.op = "processNotification"
    /\ last.code = 404
    /\ Len(payments) > 0

\* The table of the specification: the payment status and the booking status
\* ("unchanged" keeps the status read before the call) of each listed pair.
TableRow(transaction_status, fraud_status) ==
    CASE transaction_status = "capture" /\ fraud_status = "accept" -> <<"SUCCESS", "PAID">>
      [] transaction_status = "capture" /\ fraud_status = "challenge" -> <<"PENDING", "unchanged">>
      [] transaction_status = "settlement" -> <<"SUCCESS", "PAID">>
      [] transaction_status = "pending" -> <<"PENDING", "unchanged">>
      [] transaction_status \in {"deny", "cancel"} -> <<"FAILED", "CANCELED">>
      [] transaction_status = "expire" -> <<"EXPIRED", "CANCELED">>
      [] transaction_status = "refund" -> <<"REFUND", "unchanged">>
      [] OTHER -> <<"unlisted", "unlisted">>

\* C8: every accepted notification with a listed (transaction_status,
\* fraud_status) leaves the payment and booking status the table gives.
C8_StatusTable ==
    \A n \in Notifications(DB) :
        LET r == processNotification(DB, n, now)
            p == findPaymentByOrderId(DB, n.order_id)
            row == TableRow(n.transaction_status, n.fraud_status)
        IN (r.code = 200 /\ row[1] # "unlisted") =>
              /\ r.db.payments[p].status = row[1]
              /\ r.db.bookings[payments[p].bookingId].status =
                    IF row[2] = "unchanged"
                    THEN bookings[payments[p].bookingId].status
                    ELSE row[2]

C8_Witness ==
    /\ last.op = "processNotification"
    /\ last.code = 200
    /\ payments[last.id].status = "EXPIRED"
    /\ bookings[payments[last.id].bookingId].status = "CANCELED"

\* C9: once a booking has been PAID, CONFIRMED or COMPLETED, every
\* updateBooking on it is answered 400 (at its first await, before it writes)
\* and no step changes its totalAmount or participants.
C9_FrozenOncePaid ==
    [][\A b \in everPaid :
          /\ \A r \in Free, u \in BookingPatches :
                UpdateGetBooking(r, UpdateBookingRequest(b, u)) => last'.code = 400
          /\ bookings'[b].participants = bookings[b].participants
          /\ bookings'[b].totalAmount = bookings[b].totalAmount]_vars

\* C10: updateBooking on a booking that is PAID, CONFIRMED or COMPLETED is
\* answered 400 and writes nothing.
C10_UpdateLockedRejected ==
    \A b \in DOMAIN bookings :
        bookings[b].status \in PaidStatuses =>
            \A u \in BookingPatches :
                updateBooking(DB, b, u) = [code |-> 400, db |-> DB]

C10_Witness ==
    /\ last.op = "updateBooking"
    /\ last.code = 400
    /\ last.id \in DOMAIN bookings
    /\ bookings[last.id].status = "COMPLETED"

\* -------------------------------------------- claims, concurrent requests
\* C2: of two concurrent createBooking requests for one package that has room
\* for only one of them, at most one succeeds.
C2_OnlyOneBookingWins ==
    \A r1, r2 \in DOMAIN reqs :
        (/\ r1 # r2
         /\ reqs[r1].pc = "done" /\ reqs[r2].pc = "done"
         /\ reqs[r1].data.body.packageId = reqs[r2].data.body.packageId
         /\ reqs[r1].data.body.packageId \in DOMAIN packages
         /\ reqs[r1].data.body.participants + reqs[r2].data.body.participants
               > packages[reqs[r1].data.body.packageId].quota)
        => ~(reqs[r1].code = 201 /\ reqs[r2].code = 201)

\* The orders in which the requests in flight can be handled one after another.
SerialOrders ==
    {o \in [DOMAIN reqs -> DOMAIN reqs] : \A i, j \in DOMAIN reqs : o[i] = o[j] => i = j}

RECURSIVE RunSerial(_, _, _)
RunSerial(db, order, i) ==
    IF i > Len(order) THEN db
    ELSE RunSerial(processNotification(db, reqs[order[i]].data, now).db, order, i + 1)

StatusPair(db) == <<db.payments[1].status, db.bookings[1].status>>

\* C5: when concurrent notifications for one order have all been processed, the
\* payment and booking status are those of processing them in some serial order.
C5_NotificationsSerialize ==
    AllDone => \E o \in SerialOrders :
                  StatusPair(DB) = StatusPair(RunSerial(PendingPaymentDB, o, 1))

\* C11: while updateBooking and processNotification run concurrently on one
\* booking, a booking that is PAID keeps the participants and totalAmount it had
\* when it became PAID: no step taken while it is PAID changes either.
C11_PaidAmountStable ==
    [][\A b \in DOMAIN bookings :
          (bookings[b].status = "PAID" /\ bookings'[b].status = "PAID") =>
              /\ bookings'[b].participants = bookings[b].participants
              /\ bookings'[b].totalAmount = bookings[b].totalAmount]_vars

\* ---------------------------------------------- claims, capacity and lifecycle
\* The bookings of a package that occupy its slots, and the participants of a
\* set of bookings, stated apart from the capacity calculator.
HeldBy(db, packageId) ==
    {i \in DOMAIN db.bookings :
        /\ db.bookings[i].packageId = packageId
        /\ db.bookings[i].status \in {"PENDING", "PAID", "CONFIRMED"}}

RECURSIVE ParticipantsOf(_, _)
ParticipantsOf(db, S) ==
    IF S = {} THEN 0
    ELSE LET i == CHOOSE j \in S : TRUE
         IN db.bookings[i].participants + ParticipantsOf(db, S \ {i})

FreeSlots(db, packageId) ==
    db.packages[packageId].quota - ParticipantsOf(db, HeldBy(db, packageId))

CapacityHolds(db) == \A p \in DOMAIN db.packages : FreeSlots(db, p) >= 0

\* C12: cancelBooking on a PAID booking is answered 400 and leaves it PAID.
C12_CancelPaidRejected ==
    \A b \in DOMAIN bookings :
        bookings[b].status = "PAID" =>
            cancelBooking(DB, b) = [code |-> 400, db |-> DB]

\* C13: cancelBooking on a COMPLETED booking is answered 400 and changes
\* nothing; on a booking in any other status it sets the status to CANCELED, and
\* when the booking was PENDING, PAID or CONFIRMED the availableSlots that
\* checkAvailability reports for its package grow by exactly its participants.
C13_CancelReleasesSlots ==
    \A b \in DOMAIN bookings :
        LET r == cancelBooking(DB, b)
            before == checkAvailability(DB, bookings[b].packageId, 1)
            after == checkAvailability(r.db, bookings[b].packageId, 1)
        IN IF bookings[b].status = "COMPLETED"
           THEN r = [code |-> 400, db |-> DB]
           ELSE /\ r.code = 200
                /\ r.db = [DB EXCEPT !.bookings[b].status = "CANCELED"]
                /\ (bookings[b].status \in {"PENDING", "PAID", "CONFIRMED"}
                    /\ before.code = 200) =>
                       /\ after.code = 200
                       /\ after.availableSlots =
                             before.availableSlots + bookings[b].participants

C13_Witness ==
    /\ last.op = "cancelBooking"
    /\ last.code = 200
    /\ Len(bookings) = 2
    /\ last.id \in everPaid
    /\ bookings[last.id].status = "CANCELED"
    /\ \E i \in DOMAIN bookings :
          /\ i # last.id
          /\ bookings[i].packageId = bookings[last.id].packageId
          /\ bookings[i].status = "CONFIRMED"

\* C14: a booking created by a successful createBooking is PENDING with
\* totalAmount = the package's current price * participants, and createBooking
\* succeeds only when the customer exists, the package exists and is active and
\* checkAvailability reports isAvailable for the requested participants.
C14_CreateBookingContract ==
    \A data \in CatalogBookingInputs :
        LET r == createBooking(DB, data)
            id == Len(bookings) + 1
        IN r.code = 201 =>
              /\ DOMAIN r.db.bookings = 1..id
              /\ r.db.bookings[id].status = "PENDING"
              /\ r.db.bookings[id].totalAmount =
                    packages[data.packageId].price * data.participants
              /\ data.customerId \in DOMAIN customers
              /\ data.packageId \in DOMAIN packages
              /\ packages[data.packageId].isActive
              /\ checkAvailability(DB, data.packageId, data.participants).code = 200
              /\ checkAvailability(DB, data.packageId, data.participants).isAvailable

C14_Witness ==
    /\ last.op = "createBooking"
    /\ last.code = 201
    /\ bookings[last.id].status = "PENDING"
    /\ DOMAIN customers = {bookings[last.id].customerId}
    /\ bookings[last.id].packageId = NumPackages + 1
    /\ bookings[last.id].participants = 2
    /\ bookings[last.id].totalAmount = 500
    /\ 1 \notin DOMAIN packages

\* C15: for an existing active package checkAvailability(packageId, n) reports
\* availableSlots = quota - the participants of the package's bookings in
\* PENDING, PAID or CONFIRMED and isAvailable = (availableSlots >= n); it is
\* answered 404 for an absent package and 400 for an inactive one; and the
\* request changes no record.
C15_CheckAvailabilityContract ==
    /\ [](\A p \in 1..(NumPackages + 1), n \in 1..(MaxQuota + 1) :
            LET r == checkAvailability(DB, p, n)
            IN IF p \notin DOMAIN packages THEN r.code = 404
               ELSE IF ~packages[p].isActive THEN r.code = 400
               ELSE /\ r.code = 200
                    /\ r.availableSlots = FreeSlots(DB, p)
                    /\ r.isAvailable = (FreeSlots(DB, p) >= n))
    /\ [][\A r \in DOMAIN reqs, p \in 1..(NumPackages + 1), n \in 0..MaxParticipants :
             CheckAvailability(r, CheckAvailabilityRequest(p, n)) =>
                 UNCHANGED <<packages, customers, bookings, payments, interactions>>]_vars

C15_Witness ==
    /\ last.op = "checkAvailability"
    /\ last.code = 200
    /\ Len(bookings) = 2
    /\ bookings[1].packageId = last.id /\ bookings[2].packageId = last.id
    /\ bookings[1].status = "CONFIRMED"
    /\ bookings[2].status = "PENDING"
    /\ FreeSlots(DB, last.id) = 0

\* C16: from a state in which every package's slot-holding participants are
\* within its quota, every successful updateBooking leaves them within the
\* quota, and an update raising participants by more than the available slots
\* is answered 400 and changes nothing.
C16_UpdateKeepsCapacity ==
    \A b \in DOMAIN bookings, u \in BookingPatches :
        LET r == updateBooking(DB, b, u)
            delta == IF "participants" \in DOMAIN u
                     THEN u.participants - bookings[b].participants
                     ELSE 0
        IN CapacityHolds(DB) =>
              /\ r.code = 200 => CapacityHolds(r.db)
              /\ (delta > 0 /\ delta > FreeSlots(DB, bookings[b].packageId)) =>
                    r = [code |-> 400, db |-> DB]

\* ------------------------------------------------ claims, payment initiation
\* The caller may act on the booking: staff, or the customer who owns it.
Authorized(user, b) == user.type # "CUSTOMER" \/ bookings[b].customerId = user.id

PaymentsOfBooking(db, b) == {i \in DOMAIN db.payments : db.payments[i].bookingId = b}

StoredLink(db, p) ==
    Some([snapToken |-> db.payments[p].midtransToken,
          redirectUrl |-> db.payments[p].paymentUrl])

\* C17: initiatePayment on a PENDING booking that has a PENDING payment returns
\* that payment's stored token and URL whether or not the provider is reachable
\* and writes nothing; and after any successful initiatePayment on a PENDING
\* booking a second call, at once or later, returns the same token and URL and
\* leaves exactly one payment row for the booking.
C17_InitiateIdempotent ==
    \A b \in DOMAIN bookings, user \in Users, ok \in BOOLEAN :
        LET first == initiatePayment(DB, b, user, ok, now)
        IN /\ \A p \in PaymentsOfBooking(DB, b) :
                 (/\ bookings[b].status = "PENDING"
                  /\ Authorized(user, b)
                  /\ payments[p].status = "PENDING") =>
                     first = [code |-> 200, db |-> DB, out |-> StoredLink(DB, p)]
           /\ first.code = 200 =>
                 \A ok2 \in BOOLEAN, t \in now..MaxTime :
                     LET second == initiatePayment(first.db, b, user, ok2, t)
                     IN /\ second.code = 200
                        /\ second.out = first.out
                        /\ second.db = first.db
                        /\ Cardinality(PaymentsOfBooking(second.db, b)) = 1

C17_Witness ==
    /\ last.op = "initiatePayment"
    /\ last.code = 200
    /\ now = MaxTime
    /\ bookings[last.id].status = "PENDING"
    /\ \E p \in PaymentsOfBooking(DB, last.id) :
          /\ payments[p].status = "PENDING"
          /\ payments[p].paymentType # Null
          /\ payments[p].midtransOrderId = OrderId(bookings[last.id].bookingCode, 0)

\* C18: an initiatePayment that fails writes nothing; on a booking that is not
\* PENDING it is answered 400 whether or not the provider is reachable, and when
\* the provider call fails it is answered 500.
C18_FailedInitiatePersistsNothing ==
    \A b \in 1..(Len(bookings) + 1), user \in Users, ok \in BOOLEAN :
        LET r == initiatePayment(DB, b, user, ok, now)
        IN /\ r.code # 200 => r.db = DB
           /\ (/\ b \in DOMAIN bookings
               /\ Authorized(user, b)
               /\ bookings[b].status # "PENDING") => r.code = 400
           /\ (/\ b \in DOMAIN bookings
               /\ Authorized(user, b)
               /\ bookings[b].status = "PENDING"
               /\ \A p \in PaymentsOfBooking(DB, b) : payments[p].status # "PENDING"
               /\ ~ok) => r.code = 500

C18_Witness ==
    /\ last.op = "initiatePayment"
    /\ last.code = 500
    /\ bookings[last.id].status = "PENDING"
    /\ payments = <<>>

\* C19: whenever a booking is PENDING and the provider call succeeds,
\* initiatePayment answers 200 with a token and redirect URL.
C19_RetryAlwaysPossible ==
    \A b \in DOMAIN bookings, user \in Users :
        (bookings[b].status = "PENDING" /\ Authorized(user, b)) =>
            /\ initiatePayment(DB, b, user, TRUE, now).code = 200
            /\ initiatePayment(DB, b, user, TRUE, now).out # Null

\* C20: whatever the interleaving of initiatePayment requests, no two payment
\* rows belong to one booking and no two carry the same order id.
C20_OnePaymentPerBooking ==
    \A i, j \in DOMAIN payments :
        i # j => /\ payments[i].bookingId # payments[j].bookingId
                 /\ payments[i].midtransOrderId # payments[j].midtransOrderId

C20_Witness ==
    /\ AllDone
    /\ Len(payments) = 1
    /\ \E r1, r2 \in DOMAIN reqs :
          /\ r1 # r2
          /\ reqs[r1].data.id = reqs[r2].data.id
          /\ reqs[r1].data.providerOk /\ reqs[r2].data.providerOk
          /\ reqs[r1].code = 200
          /\ reqs[r2].code = 500
          /\ reqs[r2].snap # Null
          /\ reqs[r1].snap.orderId # reqs[r2].snap.orderId

\* ------------------------------------------- claims, cross-record consistency
\* C21: every payment's amount equals the totalAmount of its booking.
C21_AmountMirrorsTotal ==
    \A i \in DOMAIN payments :
        payments[i].amount = bookings[payments[i].bookingId].totalAmount

\* The bookings of a customer that count as paid, and the tier the
\* specification gives for that many.
PaidBookingsOf(db, c) ==
    {i \in DOMAIN db.bookings :
        /\ db.bookings[i].customerId = c
        /\ db.bookings[i].status \in {"PAID", "CONFIRMED", "COMPLETED"}}

TierFor(c) ==
    IF c = 0 THEN "PROSPECT" ELSE IF c <= 2 THEN "ACTIVE" ELSE "LOYAL"

\* C22: when a createBooking, updateBooking, cancelBooking or
\* processNotification completes, each customer's status is the tier of the
\* current number of their PAID, CONFIRMED or COMPLETED bookings. Stated for
\* the customers whose status was that tier before the step, the seed's ACTIVE
\* customer without a booking being none of them.
C22_CustomerStatusDerived ==
    [][\A c \in DOMAIN customers :
          (/\ last'.op \in {"createBooking", "updateBooking", "cancelBooking",
                            "processNotification"}
           /\ customers[c].status = TierFor(Cardinality(PaidBookingsOf(DB, c))))
          => /\ c \in DOMAIN customers'
             /\ customers'[c].status =
                   TierFor(Cardinality(PaidBookingsOf([bookings |-> bookings'], c)))]_vars

\* C27: a booking that is CANCELED is never put back into PENDING, PAID or
\* CONFIRMED by a later step.
C27_CanceledAbsorbing ==
    [][\A b \in DOMAIN bookings :
          bookings[b].status = "CANCELED" =>
              bookings'[b].status \notin {"PENDING", "PAID", "CONFIRMED"}]_vars

\* C28: a booking that is COMPLETED is never made CANCELED by a later step.
C28_CompletedNeverCanceled ==
    [][\A b \in DOMAIN bookings :
          bookings[b].status = "COMPLETED" => bookings'[b].status # "CANCELED"]_vars

\* C29: from one pre-state, two accepted notifications with the same order_id,
\* status_code, gross_amount and signature_key leave the same payment status
\* and booking status, whatever their transaction_status and fraud_status.
C29_SignedFieldsDecide ==
    \A n1, n2 \in Notifications(DB) :
        LET r1 == processNotification(DB, n1, now)
            r2 == processNotification(DB, n2, now)
            p == findPaymentByOrderId(DB, n1.order_id)
        IN (/\ n1.order_id = n2.order_id
            /\ n1.status_code = n2.status_code
            /\ n1.gross_amount = n2.gross_amount
            /\ n1.signature_key = n2.signature_key
            /\ r1.code = 200 /\ r2.code = 200) =>
              /\ r1.db.payments[p].status = r2.db.payments[p].status
              /\ r1.db.bookings[payments[p].bookingId].status =
                    r2.db.bookings[payments[p].bookingId].status

\* C30: every booking that is PAID has a payment whose status is SUCCESS.
C30_PaidHasSuccessPayment ==
    \A b \in DOMAIN bookings :
        bookings[b].status = "PAID" =>
            \E i \in DOMAIN payments :
                payments[i].bookingId = b /\ payments[i].status = "SUCCESS"

\* ------------------------------------------------------- claims, ownership
\* C24: for a caller of type CUSTOMER, getBookingById, initiatePayment and
\* downloadInvoice on a booking of another customer are answered 403, and
\* initiatePayment then writes nothing whether or not the provider is
\* reachable; getAllBookings lists only bookings of the caller, whatever the
\* query; and a booking created by the caller carries the caller's id,
\* whatever customerId the body carries.
C24_CustomerOwnership ==
    \A user \in Owners :
        /\ \A b \in DOMAIN bookings :
              bookings[b].customerId # user.id =>
                  /\ getBookingById(DB, b, user) = [code |-> 403, out |-> Null]
                  /\ downloadInvoice(DB, b, user) = [code |-> 403, out |-> Null]
                  /\ \A ok \in BOOLEAN :
                        initiatePayment(DB, b, user, ok, now)
                            = [code |-> 403, db |-> DB, out |-> Null]
        /\ \A query \in BookingQueries :
              LET listed == getAllBookings(DB, user, query).out.bookings
              IN \A k \in DOMAIN listed : bookings[listed[k]].customerId = user.id
        /\ \A body \in BookingBodies :
              LET r == createBookingRequest(DB, user, body)
              IN r.code = 201 =>
                    r.db.bookings[Len(bookings) + 1].customerId = user.id

C24_Witness ==
    /\ last.op = "initiatePayment"
    /\ last.code = 403
    /\ Len(bookings) = 2
    /\ bookings[1].customerId # bookings[2].customerId
    /\ Len(payments) = 1
    /\ payments[1].bookingId # last.id

\* ------------------------------------------------ claims, customer status
\* C23: when processNotification makes a booking PAID, the customer of the
\* booking ends the call ACTIVE with 1 or 2 bookings in PAID, CONFIRMED or
\* COMPLETED (the new one counted) and LOYAL with 3 or more; the deriver
\* changes only the status field of that customer (the other fields of the
\* row, the other customers and the other tables are as before), and running
\* it a second time changes nothing.
C23_DeriverAfterPaid ==
    /\ \A n \in Notifications(DB) :
          LET r == processNotification(DB, n, now)
              p == findPaymentByOrderId(DB, n.order_id)
              b == payments[p].bookingId
              c == bookings[b].customerId
              paid == Cardinality(PaidBookingsOf(r.db, c))
          IN (/\ r.code = 200
              /\ bookings[b].status # "PAID"
              /\ r.db.bookings[b].status = "PAID") =>
                 /\ paid >= 1
                 /\ paid <= 2 => r.db.customers[c].status = "ACTIVE"
                 /\ paid >= 3 => r.db.customers[c].status = "LOYAL"
    /\ \A c \in DOMAIN customers :
          LET derived == updateCustomerStatus(DB, c)
          IN /\ derived.packages = packages
             /\ derived.bookings = bookings
             /\ derived.payments = payments
             /\ derived.interactions = interactions
             /\ DOMAIN derived.customers = DOMAIN customers
             /\ \A d \in DOMAIN customers :
                   /\ derived.customers[d] =
                         [customers[d] EXCEPT !.status = derived.customers[d].status]
                   /\ d # c => derived.customers[d] = customers[d]
             /\ updateCustomerStatus(derived, c) = derived

C23_Witness ==
    /\ last.op = "processNotification"
    /\ last.code = 200
    /\ bookings[payments[last.id].bookingId].status = "PAID"
    /\ Cardinality(PaidBookingsOf(DB, 1)) = 3
    /\ customers[1].status = "LOYAL"

\* ---------------------------------------------------- claims, payment rows
\* C25: initiatePayment changes no booking; after a successful call the booking
\* is still PENDING with the participants and totalAmount it had before.
C25_InitiateKeepsBooking ==
    \A b \in 1..(Len(bookings) + 1), user \in Users, ok \in BOOLEAN :
        LET r == initiatePayment(DB, b, user, ok, now)
        IN /\ r.db.bookings = bookings
           /\ r.code = 200 =>
                 /\ r.db.bookings[b].status = "PENDING"
                 /\ r.db.bookings[b].participants = bookings[b].participants
                 /\ r.db.bookings[b].totalAmount = bookings[b].totalAmount

C25_Witness ==
    /\ last.op = "initiatePayment"
    /\ last.code = 200
    /\ Len(payments) = 1
    /\ payments[1].paymentType = Null
    /\ bookings[last.id].status = "PENDING"
    /\ bookings[last.id].participants = 2
    /\ bookings[last.id].totalAmount = 200

\* C26: in every reachable state a payment has a paidAt exactly when its
\* status is SUCCESS.
C26_PaidAtIffSuccess ==
    \A i \in DOMAIN payments :
        (payments[i].paidAt # Null) <=> (payments[i].status = "SUCCESS")

C26_Witness ==
    /\ last.op = "processNotification"
    /\ last.code = 200
    /\ payments[last.id].status = "REFUND"
    /\ payments[last.id].paidAt = Null
    /\ bookings[payments[last.id].bookingId].status = "PAID"

====
